---- MODULE Spec2Model ----
(***************************************************************************)
(* A model of the Ferrous (super) CHIP-8 interpreter core,                 *)
(* ferrous-core/src/cpu.rs.  The CPU struct is a record; every method of   *)
(* the struct is an operator from a CPU record (and its arguments) to the  *)
(* CPU record the method leaves behind.  A method that can panic returns   *)
(* the record and a panic flag (Ok / Panic below).                         *)
(*                                                                         *)
(* The two large byte arrays, memory ([u8; 0x1000]) and vram               *)
(* ([u8; 128 * 64]), are stored as functions whose domain is the set of    *)
(* indices that hold a non-zero byte; get and put read and write them as   *)
(* arrays of their full length.                                            *)
(***************************************************************************)
EXTENDS Integers, Sequences, FiniteSets, TLC

(***************************************************************************)
(* Program constants.                                                      *)
(***************************************************************************)
MEMORY_SIZE == 4096
VRAM_SIZE == 8192
STACK_SIZE == 16
ROM_START == 512
MAX_ROM_LEN == 3584
FLAG_REGS == 8

(***************************************************************************)
(* Byte arithmetic.                                                        *)
(***************************************************************************)
Bit(v, n) == (v \div (2 ^ n)) % 2

RECURSIVE BitFold(_, _, _, _)
BitFold(f, a, b, n) ==
    IF n < 0 THEN 0
    ELSE f[<<Bit(a, n), Bit(b, n)>>] * (2 ^ n) + BitFold(f, a, b, n - 1)

AndTable == [p \in {0, 1} \X {0, 1} |-> IF p[1] = 1 /\ p[2] = 1 THEN 1 ELSE 0]
OrTable == [p \in {0, 1} \X {0, 1} |-> IF p[1] = 1 \/ p[2] = 1 THEN 1 ELSE 0]
XorTable == [p \in {0, 1} \X {0, 1} |-> IF p[1] # p[2] THEN 1 ELSE 0]

BitAnd(a, b) == BitFold(AndTable, a, b, 15)
BitOr(a, b) == BitFold(OrTable, a, b, 15)
BitXor(a, b) == BitFold(XorTable, a, b, 15)

(***************************************************************************)
(* Arrays of bytes kept by their non-zero entries.                         *)
(***************************************************************************)
get(a, k) == IF k \in DOMAIN a THEN a[k] ELSE 0

put(a, k, v) ==
    IF v = 0 THEN [j \in DOMAIN a \ {k} |-> a[j]]
    ELSE [j \in DOMAIN a \cup {k} |-> IF j = k THEN v ELSE a[j]]

zeroes == [j \in {} |-> 0]

(***************************************************************************)
(* font.rs is not part of the sources at hand: FONT_SPRITES is the usual   *)
(* 4x5 hexadecimal glyph set (80 bytes), HIGH_RES_FONT_SPRITES a           *)
(* placeholder for the 8x10 set (160 bytes).  Nothing below depends on the *)
(* glyph bytes beyond their position and length.                           *)
(***************************************************************************)
FONT_SPRITES ==
    << 240, 144, 144, 144, 240,   32,  96,  32,  32, 112,
       240,  16, 240, 128, 240,  240,  16, 240,  16, 240,
       144, 144, 240,  16,  16,  240, 128, 240,  16, 240,
       240, 128, 240, 144, 240,  240,  16,  32,  64,  64,
       240, 144, 240, 144, 240,  240, 144, 240,  16, 240,
       240, 144, 240, 144, 144,  224, 144, 224, 144, 224,
       240, 128, 128, 128, 240,  224, 144, 144, 144, 224,
       240, 128, 240, 128, 240,  240, 128, 240, 128, 128 >>

HIGH_RES_FONT_SPRITES ==
    [k \in 1..160 |-> IF (k - 1) % 10 \in {0, 9} THEN 255 ELSE 129 + ((k - 1) \div 10)]

(***************************************************************************)
(* A method either returns, leaving the CPU as given, or panics on the way *)
(* (an index out of range, a slice longer than its array, an arithmetic    *)
(* overflow); cpu is then the struct as the panic found it.                *)
(***************************************************************************)
Done(c) == [cpu |-> c, panic |-> FALSE]
Panic(c) == [cpu |-> c, panic |-> TRUE]

(***************************************************************************)
(* General methods.                                                        *)
(***************************************************************************)
font_memory ==
    [a \in {k \in 0..239 : (IF k < 80 THEN FONT_SPRITES[k + 1]
                            ELSE HIGH_RES_FONT_SPRITES[k - 79]) # 0} |->
        IF a < 80 THEN FONT_SPRITES[a + 1] ELSE HIGH_RES_FONT_SPRITES[a - 79]]

new ==
    [ memory |-> font_memory,
      stack |-> [k \in 0..(STACK_SIZE - 1) |-> 0],
      register |-> [k \in 0..15 |-> 0],
      pc |-> ROM_START,
      sp |-> 0,
      i |-> 0,
      dt |-> 0,
      st |-> 0,
      vram |-> zeroes,
      keypad |-> [k \in 0..15 |-> FALSE],
      flag_regs |-> [k \in 0..(FLAG_REGS - 1) |-> 0],
      is_halted |-> FALSE,
      is_highres |-> FALSE,
      load_store_quirk |-> FALSE,
      shift_quirk |-> FALSE,
      jump_quirk |-> FALSE ]

\* reset that also clears the flag registers.
reset_clearing_flags(c) ==
    [c EXCEPT
        !.memory = [a \in {k \in DOMAIN c.memory : k < ROM_START} |-> c.memory[a]],
        !.register = [k \in 0..15 |-> 0],
        !.pc = ROM_START,
        !.sp = 0,
        !.i = 0,
        !.dt = 0,
        !.st = 0,
        !.vram = zeroes,
        !.keypad = [k \in 0..15 |-> FALSE],
        !.flag_regs = [k \in 0..(FLAG_REGS - 1) |-> 0],
        !.is_halted = FALSE,
        !.is_highres = FALSE]

reset(c) ==
    [c EXCEPT
        !.memory = [a \in {k \in DOMAIN c.memory : k < ROM_START} |-> c.memory[a]],
        !.register = [k \in 0..15 |-> 0],
        !.pc = ROM_START,
        !.sp = 0,
        !.i = 0,
        !.dt = 0,
        !.st = 0,
        !.vram = zeroes,
        !.keypad = [k \in 0..15 |-> FALSE],
        !.is_halted = FALSE,
        !.is_highres = FALSE]

\* copy_rom with the destination slice starting one byte late.
copy_rom_one_late(m, buffer) ==
    LET first == ROM_START + 1
        last == first + Len(buffer)
        kept == {a \in DOMAIN m : a < first \/ a >= last}
        written == {first + k - 1 : k \in {j \in 1..Len(buffer) : buffer[j] # 0}}
    IN [a \in kept \cup written |->
            IF a \in written THEN buffer[a - first + 1] ELSE m[a]]

\* The bytes of buffer land at ROM_START .. ROM_START + Len(buffer) - 1.
copy_rom(m, buffer) ==
    LET last == ROM_START + Len(buffer)
        kept == {a \in DOMAIN m : a < ROM_START \/ a >= last}
        written == {ROM_START + k - 1 : k \in {j \in 1..Len(buffer) : buffer[j] # 0}}
    IN [a \in kept \cup written |->
            IF a \in written THEN buffer[a - ROM_START + 1] ELSE m[a]]

\* load_rom with the length test off by one.
load_rom_one_more(c, buffer) ==
    IF Len(buffer) > MAX_ROM_LEN + 1
    THEN [cpu |-> c, ok |-> FALSE]
    ELSE [cpu |-> [c EXCEPT !.memory = copy_rom(c.memory, buffer)], ok |-> TRUE]

load_rom(c, buffer) ==
    IF Len(buffer) > MAX_ROM_LEN
    THEN [cpu |-> c, ok |-> FALSE]
    ELSE [cpu |-> [c EXCEPT !.memory = copy_rom(c.memory, buffer)], ok |-> TRUE]

\* step_timers with wrapping decrements and no test for zero.
step_timers_wrapping(c) == [c EXCEPT !.dt = (@ + 255) % 256, !.st = (@ + 255) % 256]

step_timers(c) ==
    LET c1 == IF c.dt > 0 THEN [c EXCEPT !.dt = @ - 1] ELSE c
    IN IF c1.st > 0 THEN [c1 EXCEPT !.st = @ - 1] ELSE c1

reset_keys(c) == [c EXCEPT !.keypad = [k \in 0..15 |-> FALSE]]

set_key_at_index(c, index, value) ==
    IF index \in 0..15 THEN Done([c EXCEPT !.keypad[index] = value]) ELSE Panic(c)

set_load_store(c, value) == [c EXCEPT !.load_store_quirk = value]

set_shift(c, value) == [c EXCEPT !.shift_quirk = value]

set_jump(c, value) == [c EXCEPT !.jump_quirk = value]

\* get_height_width that reports the low resolution in both modes.
get_height_width_low(c) == <<32, 64>>

get_height_width(c) == IF c.is_highres THEN <<64, 128>> ELSE <<32, 64>>

\* fetch_opcode with the two bytes swapped.
fetch_opcode_little_endian(c) == get(c.memory, c.pc + 1) * 256 + get(c.memory, c.pc)

fetch_opcode(c) == get(c.memory, c.pc) * 256 + get(c.memory, c.pc + 1)

(***************************************************************************)
(* Standard CHIP opcodes.  Each takes the CPU after execute_cycle has      *)
(* advanced pc past the fetched word.                                      *)
(***************************************************************************)
op_00e0(c) == Done([c EXCEPT !.vram = zeroes])

\* sp is a usize: at sp = 0 the decrement panics with overflow checks on and
\* wraps to usize::MAX without them, where stack[sp] is out of range.
op_00ee(c) ==
    IF c.sp = 0 \/ c.sp - 1 >= STACK_SIZE THEN Panic(c)
    ELSE Done([c EXCEPT !.sp = c.sp - 1, !.pc = c.stack[c.sp - 1]])

op_1nnn(c, nnn) == Done([c EXCEPT !.pc = nnn])

\* op_2nnn that stores the address of the CALL itself.
op_2nnn_storing_own_address(c, nnn) ==
    IF c.sp >= STACK_SIZE THEN Panic(c)
    ELSE Done([c EXCEPT !.stack[c.sp] = (c.pc - 2) % 65536, !.sp = c.sp + 1, !.pc = nnn])

op_2nnn(c, nnn) ==
    IF c.sp >= STACK_SIZE THEN Panic(c)
    ELSE Done([c EXCEPT !.stack[c.sp] = c.pc % 65536, !.sp = c.sp + 1, !.pc = nnn])

op_3xkk(c, x, kk) == Done(IF c.register[x] = kk THEN [c EXCEPT !.pc = @ + 2] ELSE c)

\* op_4xkk that skips on equality.
op_4xkk_on_equal(c, x, kk) == Done(IF c.register[x] = kk THEN [c EXCEPT !.pc = @ + 2] ELSE c)

op_4xkk(c, x, kk) == Done(IF c.register[x] # kk THEN [c EXCEPT !.pc = @ + 2] ELSE c)

op_5xy0(c, x, y) ==
    Done(IF c.register[x] = c.register[y] THEN [c EXCEPT !.pc = @ + 2] ELSE c)

op_6xkk(c, x, kk) == Done([c EXCEPT !.register[x] = kk])

op_7xkk(c, x, kk) == Done([c EXCEPT !.register[x] = (@ + kk) % 256])

op_8xy0(c, x, y) == Done([c EXCEPT !.register[x] = c.register[y]])

op_8xy1(c, x, y) == Done([c EXCEPT !.register[x] = BitOr(@, c.register[y])])

op_8xy2(c, x, y) == Done([c EXCEPT !.register[x] = BitAnd(@, c.register[y])])

op_8xy3(c, x, y) == Done([c EXCEPT !.register[x] = BitXor(@, c.register[y])])

\* op_8xy4 with register[0xF] written first.
op_8xy4_flag_first(c, x, y) ==
    LET sum == c.register[x] + c.register[y]
        c1 == [c EXCEPT !.register[15] = IF sum > 255 THEN 1 ELSE 0]
    IN Done([c1 EXCEPT !.register[x] = sum % 256])

\* register[x] is written first, register[0xF] second.
op_8xy4(c, x, y) ==
    LET sum == c.register[x] + c.register[y]
        c1 == [c EXCEPT !.register[x] = sum % 256]
    IN Done([c1 EXCEPT !.register[15] = IF sum > 255 THEN 1 ELSE 0])

\* op_8xy5 that reports a borrow when the operands are equal.
op_8xy5_strict(c, x, y) ==
    LET diff == c.register[x] - c.register[y]
        c1 == [c EXCEPT !.register[x] = diff % 256]
    IN Done([c1 EXCEPT !.register[15] = IF diff <= 0 THEN 0 ELSE 1])

op_8xy5(c, x, y) ==
    LET diff == c.register[x] - c.register[y]
        c1 == [c EXCEPT !.register[x] = diff % 256]
    IN Done([c1 EXCEPT !.register[15] = IF diff < 0 THEN 0 ELSE 1])

\* register[0xF] is written first; the shifted operand is read after it.
op_8xy6(c, x, y) ==
    LET src == IF c.shift_quirk THEN x ELSE y
        c1 == [c EXCEPT !.register[15] = c.register[src] % 2]
    IN Done([c1 EXCEPT !.register[x] = c1.register[src] \div 2])

op_8xy7(c, x, y) ==
    LET diff == c.register[y] - c.register[x]
        c1 == [c EXCEPT !.register[x] = diff % 256]
    IN Done([c1 EXCEPT !.register[15] = IF diff < 0 THEN 0 ELSE 1])

op_8xye(c, x, y) ==
    LET src == IF c.shift_quirk THEN x ELSE y
        c1 == [c EXCEPT !.register[15] = c.register[src] \div 128]
    IN Done([c1 EXCEPT !.register[x] = (c1.register[src] * 2) % 256])

op_9xy0(c, x, y) ==
    Done(IF c.register[x] # c.register[y] THEN [c EXCEPT !.pc = @ + 2] ELSE c)

op_annn(c, nnn) == Done([c EXCEPT !.i = nnn])

\* op_bnnn that adds V0 under both settings of the jump quirk.
op_bnnn_always_v0(c, nnn) == Done([c EXCEPT !.pc = nnn + c.register[0]])

op_bnnn(c, nnn) ==
    IF c.jump_quirk
    THEN Done([c EXCEPT !.pc = nnn + c.register[(nnn \div 256) % 16]])
    ELSE Done([c EXCEPT !.pc = nnn + c.register[0]])

\* random is the byte rand::random::<u8>() returns.
op_cxkk(c, x, kk, random) == Done([c EXCEPT !.register[x] = BitAnd(random, kk)])

\* plot with the collision test on the byte as it is after the XOR.
plot_flag_after(c, index) ==
    LET old == get(c.vram, index)
        c1 == IF old = 0 THEN [c EXCEPT !.register[15] = 1] ELSE c
    IN [c1 EXCEPT !.vram = put(@, index, IF old % 2 = 0 THEN old + 1 ELSE old - 1)]

\* plot that sets the pixel instead of flipping it.
plot_setting(c, index) ==
    LET old == get(c.vram, index)
        c1 == IF old = 1 THEN [c EXCEPT !.register[15] = 1] ELSE c
    IN [c1 EXCEPT !.vram = put(@, index, 1)]

\* plot that flips every bit of the byte, vram[index] ^= 0xFF.
plot_inverting(c, index) ==
    LET old == get(c.vram, index)
        c1 == IF old = 1 THEN [c EXCEPT !.register[15] = 1] ELSE c
    IN [c1 EXCEPT !.vram = put(@, index, 255 - old)]

\* vram[index] ^= 1, after the collision test on the byte as it was.
plot(c, index) ==
    LET old == get(c.vram, index)
        c1 == IF old = 1 THEN [c EXCEPT !.register[15] = 1] ELSE c
    IN [c1 EXCEPT !.vram = put(@, index, IF old % 2 = 0 THEN old + 1 ELSE old - 1)]

\* The inner loop of op_dxyn: columns col and up of sprite row r.  The
\* sprite byte is read from memory at every step.
RECURSIVE draw_row(_, _, _, _, _, _)
draw_row(c, x, y, wide, r, col) ==
    IF col = (IF wide THEN 16 ELSE 8) THEN Done(c)
    ELSE LET addr == IF wide THEN c.i + (r * 2) + (IF col > 7 THEN 1 ELSE 0)
                     ELSE c.i + r
         IN IF addr >= MEMORY_SIZE THEN Panic(c)
            ELSE LET byte == get(c.memory, addr)
                     rows == get_height_width(c)[1]
                     cols == get_height_width(c)[2]
                     index == ((x + col) % cols) + ((y + r) % rows) * cols
                 IN IF Bit(byte, 7 - (col % 8)) = 0
                    THEN draw_row(c, x, y, wide, r, col + 1)
                    ELSE draw_row(plot(c, index), x, y, wide, r, col + 1)

\* The outer loop of op_dxyn: sprite rows r and up, of n.
RECURSIVE draw(_, _, _, _, _, _)
draw(c, x, y, wide, n, r) ==
    IF r = n THEN Done(c)
    ELSE LET row == draw_row(c, x, y, wide, r, 0)
         IN IF row.panic THEN row ELSE draw(row.cpu, x, y, wide, n, r + 1)

op_dxyn(c, vx, vy, n) ==
    LET x == c.register[vx]
        y == c.register[vy]
        c1 == [c EXCEPT !.register[15] = 0]
    IN IF n = 0 THEN draw(c1, x, y, TRUE, 16, 0)
       ELSE draw(c1, x, y, FALSE, n, 0)

op_ex9e(c, x) ==
    IF c.register[x] > 15 THEN Panic(c)
    ELSE Done(IF c.keypad[c.register[x]] THEN [c EXCEPT !.pc = @ + 2] ELSE c)

op_exa1(c, x) ==
    IF c.register[x] > 15 THEN Panic(c)
    ELSE Done(IF ~c.keypad[c.register[x]] THEN [c EXCEPT !.pc = @ + 2] ELSE c)

\* op_fx07 that clears the timer it reads.
op_fx07_clearing(c, x) == Done([c EXCEPT !.register[x] = c.dt, !.dt = 0])

op_fx07(c, x) == Done([c EXCEPT !.register[x] = c.dt])

\* op_fx0a that takes the highest pressed key.
op_fx0a_highest(c, x) ==
    LET pressed == {k \in 0..15 : c.keypad[k]}
    IN IF pressed # {}
       THEN Done([c EXCEPT !.register[x] =
                    CHOOSE k \in pressed : \A j \in pressed : k >= j])
       ELSE Done([c EXCEPT !.pc = @ - 2])

\* op_fx0a that releases the key it has read.
op_fx0a_consuming(c, x) ==
    LET pressed == {k \in 0..15 : c.keypad[k]}
        key == CHOOSE k \in pressed : \A j \in pressed : k <= j
    IN IF pressed # {}
       THEN Done([c EXCEPT !.register[x] = key, !.keypad[key] = FALSE])
       ELSE Done([c EXCEPT !.pc = @ - 2])

op_fx0a(c, x) ==
    LET pressed == {k \in 0..15 : c.keypad[k]}
    IN IF pressed # {}
       THEN Done([c EXCEPT !.register[x] =
                    CHOOSE k \in pressed : \A j \in pressed : k <= j])
       ELSE Done([c EXCEPT !.pc = @ - 2])

\* op_fx15 that writes the sound timer.
op_fx15_sound(c, x) == Done([c EXCEPT !.st = c.register[x]])

op_fx15(c, x) == Done([c EXCEPT !.dt = c.register[x]])

op_fx18(c, x) == Done([c EXCEPT !.st = c.register[x]])

op_fx1e(c, x) == Done([c EXCEPT !.i = @ + c.register[x]])

op_fx29(c, x) == Done([c EXCEPT !.i = c.register[x] * 5])

\* op_fx33 with the digits in the opposite order.
op_fx33_units_first(c, x) ==
    LET value == c.register[x]
        c1 == [c EXCEPT !.memory = put(@, c.i, value % 10)]
        c2 == [c1 EXCEPT !.memory = put(@, c.i + 1, (value % 100) \div 10)]
        c3 == [c2 EXCEPT !.memory = put(@, c.i + 2, value \div 100)]
    IN IF c.i >= MEMORY_SIZE THEN Panic(c)
       ELSE IF c.i + 1 >= MEMORY_SIZE THEN Panic(c1)
       ELSE IF c.i + 2 >= MEMORY_SIZE THEN Panic(c2)
       ELSE Done(c3)

\* Three indexed stores in turn; the first one out of range panics.
op_fx33(c, x) ==
    LET value == c.register[x]
        c1 == [c EXCEPT !.memory = put(@, c.i, value \div 100)]
        c2 == [c1 EXCEPT !.memory = put(@, c.i + 1, (value % 100) \div 10)]
        c3 == [c2 EXCEPT !.memory = put(@, c.i + 2, value % 10)]
    IN IF c.i >= MEMORY_SIZE THEN Panic(c)
       ELSE IF c.i + 1 >= MEMORY_SIZE THEN Panic(c1)
       ELSE IF c.i + 2 >= MEMORY_SIZE THEN Panic(c2)
       ELSE Done(c3)

store_registers(m, reg, i, x) ==
    [a \in {k \in DOMAIN m : k < i \/ k > i + x} \cup
           {i + k : k \in {j \in 0..x : reg[j] # 0}} |->
        IF a >= i /\ a <= i + x THEN reg[a - i] ELSE m[a]]

\* op_fx55 that advances i by x.
op_fx55_short_step(c, x) ==
    IF c.i + x >= MEMORY_SIZE THEN Panic(c)
    ELSE LET c1 == [c EXCEPT !.memory = store_registers(@, c.register, c.i, x)]
         IN Done(IF ~c.load_store_quirk
                 THEN [c1 EXCEPT !.i = (c.i + x) % 65536]
                 ELSE c1)

\* memory[i..=i + x] is taken before anything is copied.
op_fx55(c, x) ==
    IF c.i + x >= MEMORY_SIZE THEN Panic(c)
    ELSE LET c1 == [c EXCEPT !.memory = store_registers(@, c.register, c.i, x)]
         IN Done(IF ~c.load_store_quirk
                 THEN [c1 EXCEPT !.i = (c.i + x + 1) % 65536]
                 ELSE c1)

op_fx65(c, x) ==
    IF c.i + x >= MEMORY_SIZE THEN Panic(c)
    ELSE LET c1 == [c EXCEPT !.register =
                        [k \in 0..15 |-> IF k <= x THEN get(c.memory, c.i + k)
                                         ELSE c.register[k]]]
         IN Done(IF ~c.load_store_quirk
                 THEN [c1 EXCEPT !.i = (c.i + x + 1) % 65536]
                 ELSE c1)

(***************************************************************************)
(* SCHIP opcodes.                                                          *)
(***************************************************************************)
op_00cn(c, n) ==
    LET rows == get_height_width(c)[1]
        cols == get_height_width(c)[2]
        retained == rows - n
        last_index == cols * retained
        shift == cols * n
        moved == {k + shift : k \in {j \in DOMAIN c.vram : j < last_index}}
        beyond == {k \in DOMAIN c.vram : k >= shift + last_index}
    IN Done([c EXCEPT !.vram =
                [k \in moved \cup beyond |->
                    IF k \in beyond THEN c.vram[k] ELSE c.vram[k - shift]]])

\* op_00fb that moves the buffer as one row: the pixels that leave a row on
\* the right enter the next one on the left.
op_00fb_as_one_row(c) ==
    LET rows == get_height_width(c)[1]
        cols == get_height_width(c)[2]
        moved == {k + 4 : k \in {j \in DOMAIN c.vram : j < (rows * cols) - 4}}
        beyond == {k \in DOMAIN c.vram : k >= rows * cols}
    IN Done([c EXCEPT !.vram =
                [k \in moved \cup beyond |->
                    IF k \in beyond THEN c.vram[k] ELSE c.vram[k - 4]]])

op_00fb(c) ==
    LET rows == get_height_width(c)[1]
        cols == get_height_width(c)[2]
        moved == {k + 4 : k \in {j \in DOMAIN c.vram :
                                    j < rows * cols /\ j % cols < cols - 4}}
        beyond == {k \in DOMAIN c.vram : k >= rows * cols}
    IN Done([c EXCEPT !.vram =
                [k \in moved \cup beyond |->
                    IF k \in beyond THEN c.vram[k] ELSE c.vram[k - 4]]])

op_00fc(c) ==
    LET rows == get_height_width(c)[1]
        cols == get_height_width(c)[2]
        moved == {k - 4 : k \in {j \in DOMAIN c.vram :
                                    j < rows * cols /\ j % cols >= 4}}
        beyond == {k \in DOMAIN c.vram : k >= rows * cols}
    IN Done([c EXCEPT !.vram =
                [k \in moved \cup beyond |->
                    IF k \in beyond THEN c.vram[k] ELSE c.vram[k + 4]]])

op_00fd(c) == Done([c EXCEPT !.is_halted = TRUE])

\* op_00fe without the call of op_00e0.
op_00fe_keeping_screen(c) == Done([c EXCEPT !.is_highres = FALSE])

op_00fe(c) == op_00e0([c EXCEPT !.is_highres = FALSE])

op_00ff(c) == op_00e0([c EXCEPT !.is_highres = TRUE])

op_fx30(c, x) == Done([c EXCEPT !.i = (c.register[x] * 10) + 80])

\* flag_regs[0..=x] is out of range for x > 7.
op_fx75(c, x) ==
    IF x >= FLAG_REGS THEN Panic(c)
    ELSE Done([c EXCEPT !.flag_regs =
                [k \in 0..(FLAG_REGS - 1) |-> IF k <= x THEN c.register[k] ELSE @[k]]])

op_fx85(c, x) ==
    IF x >= FLAG_REGS THEN Panic(c)
    ELSE Done([c EXCEPT !.register =
                [k \in 0..15 |-> IF k <= x THEN c.flag_regs[k] ELSE @[k]]])

(***************************************************************************)
(* execute_cycle: fetch, advance pc, decode and execute.  ret is the       *)
(* Option<u16> returned: Some(opcode) or None.                             *)
(***************************************************************************)
Some(v) == [tag |-> "Some", val |-> v]
None == [tag |-> "None", val |-> 0]
Unit == [tag |-> "()", val |-> 0]
Ok == [tag |-> "Ok", val |-> 0]
Err(v) == [tag |-> "Err", val |-> v]
\* No value: the call panicked and unwound.
Unwound == [tag |-> "panic", val |-> 0]

\* The arms of the match on the four nibbles, in source order.
match_nibbles(c, n, x, y, kk, nnn, random) ==
    CASE n[1] = 0 /\ n[2] = 0 /\ n[3] = 12 -> op_00cn(c, n[4])
      [] n = <<0, 0, 14, 0>> -> op_00e0(c)
      [] n = <<0, 0, 14, 14>> -> op_00ee(c)
      [] n = <<0, 0, 15, 11>> -> op_00fb(c)
      [] n = <<0, 0, 15, 12>> -> op_00fc(c)
      [] n = <<0, 0, 15, 13>> -> op_00fd(c)
      [] n = <<0, 0, 15, 14>> -> op_00fe(c)
      [] n = <<0, 0, 15, 15>> -> op_00ff(c)
      [] n[1] = 1 -> op_1nnn(c, nnn)
      [] n[1] = 2 -> op_2nnn(c, nnn)
      [] n[1] = 3 -> op_3xkk(c, x, kk)
      [] n[1] = 4 -> op_4xkk(c, x, kk)
      [] n[1] = 5 /\ n[4] = 0 -> op_5xy0(c, x, y)
      [] n[1] = 6 -> op_6xkk(c, x, kk)
      [] n[1] = 7 -> op_7xkk(c, x, kk)
      [] n[1] = 8 /\ n[4] = 0 -> op_8xy0(c, x, y)
      [] n[1] = 8 /\ n[4] = 1 -> op_8xy1(c, x, y)
      [] n[1] = 8 /\ n[4] = 2 -> op_8xy2(c, x, y)
      [] n[1] = 8 /\ n[4] = 3 -> op_8xy3(c, x, y)
      [] n[1] = 8 /\ n[4] = 4 -> op_8xy4(c, x, y)
      [] n[1] = 8 /\ n[4] = 5 -> op_8xy5(c, x, y)
      [] n[1] = 8 /\ n[4] = 6 -> op_8xy6(c, x, y)
      [] n[1] = 8 /\ n[4] = 7 -> op_8xy7(c, x, y)
      [] n[1] = 8 /\ n[4] = 14 -> op_8xye(c, x, y)
      [] n[1] = 9 /\ n[4] = 0 -> op_9xy0(c, x, y)
      [] n[1] = 10 -> op_annn(c, nnn)
      [] n[1] = 11 -> op_bnnn(c, nnn)
      [] n[1] = 12 -> op_cxkk(c, x, kk, random)
      [] n[1] = 13 -> op_dxyn(c, x, y, n[4])
      [] n[1] = 14 /\ n[3] = 9 /\ n[4] = 14 -> op_ex9e(c, x)
      [] n[1] = 14 /\ n[3] = 10 /\ n[4] = 1 -> op_exa1(c, x)
      [] n[1] = 15 /\ n[3] = 0 /\ n[4] = 7 -> op_fx07(c, x)
      [] n[1] = 15 /\ n[3] = 0 /\ n[4] = 10 -> op_fx0a(c, x)
      [] n[1] = 15 /\ n[3] = 1 /\ n[4] = 5 -> op_fx15(c, x)
      [] n[1] = 15 /\ n[3] = 1 /\ n[4] = 8 -> op_fx18(c, x)
      [] n[1] = 15 /\ n[3] = 1 /\ n[4] = 14 -> op_fx1e(c, x)
      [] n[1] = 15 /\ n[3] = 2 /\ n[4] = 9 -> op_fx29(c, x)
      [] n[1] = 15 /\ n[3] = 3 /\ n[4] = 0 -> op_fx30(c, x)
      [] n[1] = 15 /\ n[3] = 3 /\ n[4] = 3 -> op_fx33(c, x)
      [] n[1] = 15 /\ n[3] = 5 /\ n[4] = 5 -> op_fx55(c, x)
      [] n[1] = 15 /\ n[3] = 6 /\ n[4] = 5 -> op_fx65(c, x)
      [] n[1] = 15 /\ n[3] = 7 /\ n[4] = 5 -> op_fx75(c, x)
      [] n[1] = 15 /\ n[3] = 8 /\ n[4] = 5 -> op_fx85(c, x)
      [] OTHER -> [cpu |-> c, panic |-> FALSE, unknown |-> TRUE]

\* fetch_and_execute with pc advanced only for the words that match.
fetch_and_execute_late_pc(c, random) ==
    IF c.pc + 1 >= MEMORY_SIZE THEN [cpu |-> c, panic |-> TRUE, ret |-> Unwound]
    ELSE LET opcode == fetch_opcode(c)
             c1 == [c EXCEPT !.pc = @ + 2]
             nibbles == << opcode \div 4096, (opcode \div 256) % 16,
                           (opcode \div 16) % 16, opcode % 16 >>
             x == nibbles[2]
             y == nibbles[3]
             kk == opcode % 256
             nnn == opcode % 4096
             r == match_nibbles(c1, nibbles, x, y, kk, nnn, random)
         IN IF "unknown" \in DOMAIN r
            THEN [cpu |-> c, panic |-> FALSE, ret |-> None]
            ELSE [cpu |-> r.cpu, panic |-> r.panic,
                  ret |-> IF r.panic THEN Unwound ELSE Some(opcode)]

\* fetch_and_execute that hands the random byte to the instruction as kk.
fetch_and_execute_random_kk(c, random) ==
    IF c.pc + 1 >= MEMORY_SIZE THEN [cpu |-> c, panic |-> TRUE, ret |-> Unwound]
    ELSE LET opcode == fetch_opcode(c)
             c1 == [c EXCEPT !.pc = @ + 2]
             nibbles == << opcode \div 4096, (opcode \div 256) % 16,
                           (opcode \div 16) % 16, opcode % 16 >>
             x == nibbles[2]
             y == nibbles[3]
             nnn == opcode % 4096
             r == match_nibbles(c1, nibbles, x, y, random, nnn, random)
         IN IF "unknown" \in DOMAIN r
            THEN [cpu |-> r.cpu, panic |-> FALSE, ret |-> None]
            ELSE [cpu |-> r.cpu, panic |-> r.panic,
                  ret |-> IF r.panic THEN Unwound ELSE Some(opcode)]

\* execute_cycle past its is_halted test.
fetch_and_execute(c, random) ==
    IF c.pc + 1 >= MEMORY_SIZE THEN [cpu |-> c, panic |-> TRUE, ret |-> Unwound]
    ELSE LET opcode == fetch_opcode(c)
             c1 == [c EXCEPT !.pc = @ + 2]
             nibbles == << opcode \div 4096, (opcode \div 256) % 16,
                           (opcode \div 16) % 16, opcode % 16 >>
             x == nibbles[2]
             y == nibbles[3]
             kk == opcode % 256
             nnn == opcode % 4096
             r == match_nibbles(c1, nibbles, x, y, kk, nnn, random)
         IN IF "unknown" \in DOMAIN r
            THEN [cpu |-> r.cpu, panic |-> FALSE, ret |-> None]
            ELSE [cpu |-> r.cpu, panic |-> r.panic,
                  ret |-> IF r.panic THEN Unwound ELSE Some(opcode)]

\* execute_cycle without its is_halted test.
execute_cycle_halt_ignored(c, random) == fetch_and_execute(c, random)

execute_cycle(c, random) ==
    IF c.is_halted THEN [cpu |-> c, panic |-> FALSE, ret |-> None]
    ELSE fetch_and_execute(c, random)

(***************************************************************************)
(* ch8-core/src/cpu.rs, the earlier CHIP-8-only core.  Its struct has the  *)
(* first ten fields of the record (the others are carried along and never  *)
(* touched); its methods are word for word those above except for the ones *)
(* that follow.                                                            *)
(***************************************************************************)
ch8_new ==
    [new EXCEPT !.memory = [a \in {k \in DOMAIN font_memory : k < 80} |-> font_memory[a]]]

\* overflowing_shr(1) reports whether the shift amount reached the width.
ch8_op_8xy6(c, x, y) ==
    LET c1 == [c EXCEPT !.register[x] = @ \div 2]
    IN Done([c1 EXCEPT !.register[15] = 0])

ch8_op_8xye(c, x, y) ==
    LET c1 == [c EXCEPT !.register[x] = (@ * 2) % 256]
    IN Done([c1 EXCEPT !.register[15] = 0])

ch8_op_bnnn(c, nnn) == Done([c EXCEPT !.pc = nnn + c.register[0]])

\* x, y, row and col are u8; the pixel index past the 64 * 32 buffer is skipped.
RECURSIVE ch8_draw_row(_, _, _, _, _)
ch8_draw_row(c, x, y, row, col) ==
    IF col = 8 THEN Done(c)
    ELSE IF c.i + row >= MEMORY_SIZE THEN Panic(c)
    ELSE LET byte == get(c.memory, c.i + row)
             actual == (x + col) + ((y + row) * 64)
         IN IF Bit(byte, 7 - col) = 0 \/ actual >= 2048
            THEN ch8_draw_row(c, x, y, row, col + 1)
            ELSE ch8_draw_row(plot(c, actual), x, y, row, col + 1)

RECURSIVE ch8_draw(_, _, _, _, _)
ch8_draw(c, x, y, n, row) ==
    IF row = n THEN Done(c)
    ELSE LET r == ch8_draw_row(c, x, y, row, 0)
         IN IF r.panic THEN r ELSE ch8_draw(r.cpu, x, y, n, row + 1)

ch8_op_dxyn(c, vx, vy, n) ==
    ch8_draw([c EXCEPT !.register[15] = 0], c.register[vx] % 64, c.register[vy] % 32, n, 0)

ch8_op_fx55(c, x) ==
    IF c.i + x >= MEMORY_SIZE THEN Panic(c)
    ELSE Done([c EXCEPT !.memory = store_registers(@, c.register, c.i, x)])

ch8_op_fx65(c, x) ==
    IF c.i + x >= MEMORY_SIZE THEN Panic(c)
    ELSE Done([c EXCEPT !.register =
                [k \in 0..15 |-> IF k <= x THEN get(c.memory, c.i + k)
                                 ELSE c.register[k]]])

ch8_match_nibbles(c, n, x, y, kk, nnn, random) ==
    CASE n = <<0, 0, 14, 0>> -> op_00e0(c)
      [] n = <<0, 0, 14, 14>> -> op_00ee(c)
      [] n[1] = 1 -> op_1nnn(c, nnn)
      [] n[1] = 2 -> op_2nnn(c, nnn)
      [] n[1] = 3 -> op_3xkk(c, x, kk)
      [] n[1] = 4 -> op_4xkk(c, x, kk)
      [] n[1] = 5 /\ n[4] = 0 -> op_5xy0(c, x, y)
      [] n[1] = 6 -> op_6xkk(c, x, kk)
      [] n[1] = 7 -> op_7xkk(c, x, kk)
      [] n[1] = 8 /\ n[4] = 0 -> op_8xy0(c, x, y)
      [] n[1] = 8 /\ n[4] = 1 -> op_8xy1(c, x, y)
      [] n[1] = 8 /\ n[4] = 2 -> op_8xy2(c, x, y)
      [] n[1] = 8 /\ n[4] = 3 -> op_8xy3(c, x, y)
      [] n[1] = 8 /\ n[4] = 4 -> op_8xy4(c, x, y)
      [] n[1] = 8 /\ n[4] = 5 -> op_8xy5(c, x, y)
      [] n[1] = 8 /\ n[4] = 6 -> ch8_op_8xy6(c, x, y)
      [] n[1] = 8 /\ n[4] = 7 -> op_8xy7(c, x, y)
      [] n[1] = 8 /\ n[4] = 14 -> ch8_op_8xye(c, x, y)
      [] n[1] = 9 /\ n[4] = 0 -> op_9xy0(c, x, y)
      [] n[1] = 10 -> op_annn(c, nnn)
      [] n[1] = 11 -> ch8_op_bnnn(c, nnn)
      [] n[1] = 12 -> op_cxkk(c, x, kk, random)
      [] n[1] = 13 -> ch8_op_dxyn(c, x, y, n[4])
      [] n[1] = 14 /\ n[3] = 9 /\ n[4] = 14 -> op_ex9e(c, x)
      [] n[1] = 14 /\ n[3] = 10 /\ n[4] = 1 -> op_exa1(c, x)
      [] n[1] = 15 /\ n[3] = 0 /\ n[4] = 7 -> op_fx07(c, x)
      [] n[1] = 15 /\ n[3] = 0 /\ n[4] = 10 -> op_fx0a(c, x)
      [] n[1] = 15 /\ n[3] = 1 /\ n[4] = 5 -> op_fx15(c, x)
      [] n[1] = 15 /\ n[3] = 1 /\ n[4] = 8 -> op_fx18(c, x)
      [] n[1] = 15 /\ n[3] = 1 /\ n[4] = 14 -> op_fx1e(c, x)
      [] n[1] = 15 /\ n[3] = 2 /\ n[4] = 9 -> op_fx29(c, x)
      [] n[1] = 15 /\ n[3] = 3 /\ n[4] = 3 -> op_fx33(c, x)
      [] n[1] = 15 /\ n[3] = 5 /\ n[4] = 5 -> ch8_op_fx55(c, x)
      [] n[1] = 15 /\ n[3] = 6 /\ n[4] = 5 -> ch8_op_fx65(c, x)
      [] OTHER -> [cpu |-> c, panic |-> FALSE, unknown |-> TRUE]

\* Result<(), u16>: Ok(()) or Err(opcode).
ch8_execute_cycle(c, random) ==
    IF c.pc + 1 >= MEMORY_SIZE THEN [cpu |-> c, panic |-> TRUE, ret |-> Unwound]
    ELSE LET opcode == fetch_opcode(c)
             c1 == [c EXCEPT !.pc = @ + 2]
             nibbles == << opcode \div 4096, (opcode \div 256) % 16,
                           (opcode \div 16) % 16, opcode % 16 >>
             x == nibbles[2]
             y == nibbles[3]
             kk == opcode % 256
             nnn == opcode % 4096
             r == ch8_match_nibbles(c1, nibbles, x, y, kk, nnn, random)
         IN IF "unknown" \in DOMAIN r
            THEN [cpu |-> r.cpu, panic |-> FALSE, ret |-> Err(opcode)]
            ELSE [cpu |-> r.cpu, panic |-> r.panic,
                  ret |-> IF r.panic THEN Unwound ELSE Ok]

(***************************************************************************)
(* The windowed drivers: ferrous-native/src/frontend.rs with its interface *)
(* frontend/gui.rs, and src/emulator.rs.  Each runs one closure on every   *)
(* event of the window's event loop.  A handler is an operator from the    *)
(* State of the interface and the CPU to what it leaves of both.  calls    *)
(* event is the event handled last, calls lists the CPU methods the frame  *)
(* loop of its handler called, and buttons the ones the debug buttons      *)
(* called in it.                                                           *)
(***************************************************************************)
DefaultCyclesPerFrame == 10

\* UserInterface::new: the State, as the event loop starts.
UserInterface_new ==
    [ emulator_state |-> "Idle",
      rom_loaded |-> FALSE,
      cycles_per_frame |-> DefaultCyclesPerFrame,
      debug_controls |-> FALSE,
      control_flow |-> "Poll",
      event |-> "NewEvents",
      calls |-> << >>,
      buttons |-> << >>,
      keys_down |-> {} ]

\* The match of handle_keyboard_event: the keypad index of a key code.
KeycodeIndex ==
    [ Key1 |-> 1, Key2 |-> 2, Key3 |-> 3, Key4 |-> 12,
      Q |-> 4, W |-> 5, E |-> 6, R |-> 13,
      A |-> 7, S |-> 8, D |-> 9, F |-> 14,
      Z |-> 10, X |-> 0, C |-> 11, V |-> 15 ]

handle_keyboard_event(c, keycode, pressed) ==
    IF keycode \in DOMAIN KeycodeIndex
    THEN set_key_at_index(c, KeycodeIndex[keycode], pressed)
    ELSE Done(c)

\* for _ in 0..n { cpu.execute_cycle() }, the result unwrapped or only
\* tested for None.  A panic ends the loop.
RECURSIVE frame_cycles(_, _, _, _)
RECURSIVE cycle_done(_, _, _, _)
frame_cycles(c, n, random, unwrapped) ==
    IF n = 0 THEN [cpu |-> c, panic |-> FALSE, calls |-> << >>]
    ELSE cycle_done(execute_cycle(c, random), n, random, unwrapped)

\* The rest of the loop, r being what the cycle just made has returned.
cycle_done(r, n, random, unwrapped) ==
    IF r.panic \/ (unwrapped /\ r.ret.tag = "None")
    THEN [cpu |-> r.cpu, panic |-> TRUE, calls |-> <<"execute_cycle">>]
    ELSE [frame_cycles(r.cpu, n - 1, random, unwrapped) EXCEPT
            !.calls = <<"execute_cycle">> \o @]

\* cpu.step_timers() after the loop r of a frame, unless the loop panicked.
timers_after(state, r) ==
    IF r.panic
    THEN [state |-> [state EXCEPT !.calls = r.calls], cpu |-> r.cpu, panic |-> TRUE]
    ELSE [state |-> [state EXCEPT !.calls = r.calls \o <<"step_timers">>],
          cpu |-> step_timers(r.cpu), panic |-> FALSE]

\* step_timers called before the loop r of a frame.
timers_before(state, r) ==
    [state |-> [state EXCEPT !.calls = <<"step_timers">> \o r.calls],
     cpu |-> r.cpu, panic |-> r.panic]

\* The frame loop with step_timers called before the cycles.
frame_timers_first(state, c, random) ==
    IF state.emulator_state = "Running"
    THEN timers_before(state,
                       frame_cycles(step_timers(c), state.cycles_per_frame, random, FALSE))
    ELSE IF state.emulator_state = "Quit"
    THEN [state |-> [state EXCEPT !.control_flow = "Exit", !.calls = << >>],
          cpu |-> c, panic |-> FALSE]
    ELSE [state |-> [state EXCEPT !.calls = << >>], cpu |-> c, panic |-> FALSE]

\* The match on emulator_state of Event::RedrawRequested in frontend.rs.
frame(state, c, random) ==
    IF state.emulator_state = "Running"
    THEN timers_after(state, frame_cycles(c, state.cycles_per_frame, random, FALSE))
    ELSE IF state.emulator_state = "Quit"
    THEN [state |-> [state EXCEPT !.control_flow = "Exit", !.calls = << >>],
          cpu |-> c, panic |-> FALSE]
    ELSE [state |-> [state EXCEPT !.calls = << >>], cpu |-> c, panic |-> FALSE]

\* Start enabled whether or not a ROM is loaded.
start_enabled_without_rom(state) == state.emulator_state # "Running"

\* .enabled(...) of the menu items Start, Pause and Reset.
start_enabled(state) == state.emulator_state # "Running" /\ state.rom_loaded

pause_enabled(state) == state.emulator_state = "Running"

reset_enabled(state) == state.emulator_state # "Idle"

\* render_menu, click being the widget the user has clicked in this frame
\* (a click on a disabled item does nothing).  Open stands for the file
\* dialog closed with a ROM chosen.
render_menu(state, c, click) ==
    IF click.widget # "menu" THEN [state |-> state, cpu |-> c, panic |-> FALSE]
    ELSE IF click.item = "Open"
    THEN LET r == load_rom(reset(c), click.rom)
         IN IF r.ok
            THEN [state |-> [state EXCEPT !.emulator_state = "Idle", !.rom_loaded = TRUE],
                  cpu |-> r.cpu, panic |-> FALSE]
            ELSE [state |-> [state EXCEPT !.emulator_state = "Idle"],
                  cpu |-> r.cpu, panic |-> TRUE]
    ELSE IF click.item = "Exit"
    THEN [state |-> [state EXCEPT !.emulator_state = "Quit"], cpu |-> c, panic |-> FALSE]
    ELSE IF click.item = "Start" /\ start_enabled(state)
    THEN [state |-> [state EXCEPT !.emulator_state = "Running"], cpu |-> c, panic |-> FALSE]
    ELSE IF click.item = "Pause" /\ pause_enabled(state)
    THEN [state |-> [state EXCEPT !.emulator_state = "Paused"], cpu |-> c, panic |-> FALSE]
    ELSE IF click.item = "Reset" /\ reset_enabled(state)
    THEN [state |-> [state EXCEPT !.emulator_state = "Idle", !.rom_loaded = FALSE],
          cpu |-> reset(c), panic |-> FALSE]
    ELSE IF click.item = "Cycles per Frame"
    THEN [state |-> [state EXCEPT !.cycles_per_frame = click.cycles],
          cpu |-> c, panic |-> FALSE]
    ELSE IF click.item = "Debug Controls"
    THEN [state |-> [state EXCEPT !.debug_controls = ~@], cpu |-> c, panic |-> FALSE]
    ELSE [state |-> state, cpu |-> c, panic |-> FALSE]

\* The Step button: r is what its execute_cycle call has returned.
stepped(state, r) ==
    [state |-> [state EXCEPT !.buttons = <<"execute_cycle">>], cpu |-> r.cpu, panic |-> r.panic]

\* The Debug Controls window of render_windows.
render_windows(state, c, click, random) ==
    IF click.widget # "button" \/ ~state.debug_controls
       \/ ~state.rom_loaded \/ state.emulator_state = "Idle"
    THEN [state |-> [state EXCEPT !.buttons = << >>], cpu |-> c, panic |-> FALSE]
    ELSE IF click.item = "Pause"
    THEN [state |-> [state EXCEPT !.buttons = << >>,
                                  !.emulator_state = IF @ = "Running" THEN "Paused"
                                                     ELSE IF @ = "Paused" THEN "Running"
                                                     ELSE @],
          cpu |-> c, panic |-> FALSE]
    ELSE IF click.item = "Step"
    THEN stepped(state, execute_cycle(c, random))
    ELSE IF click.item = "Step Timers"
    THEN [state |-> [state EXCEPT !.buttons = <<"step_timers">>],
          cpu |-> step_timers(c), panic |-> FALSE]
    ELSE [state |-> [state EXCEPT !.buttons = << >>], cpu |-> c, panic |-> FALSE]

\* render_ui: render_windows after render_menu has left m.
windows_after(m, click, random) ==
    IF m.panic THEN [m EXCEPT !.state.buttons = << >>]
    ELSE render_windows(m.state, m.cpu, click, random)

\* render_ui after the frame loop has left f.
render_ui(f, click, random) ==
    IF f.panic THEN [f EXCEPT !.state.buttons = << >>]
    ELSE windows_after(render_menu(f.state, f.cpu, click), click, random)

\* Event::RedrawRequested of frontend.rs: the frame loop, then render_ui.
redraw(state, c, click, random) == render_ui(frame(state, c, random), click, random)

\* Event::RedrawRequested of emulator.rs, on the state the event loop
\* starts in: Running with the ROM of the command line loaded.
emulator_redraw(state, c, random) ==
    IF c.is_halted
    THEN [state |-> [state EXCEPT !.control_flow = "Exit", !.calls = << >>],
          cpu |-> c, panic |-> FALSE]
    ELSE timers_after(state, frame_cycles(c, state.cycles_per_frame, random, TRUE))

(***************************************************************************)
(* The driver.  A frontend owns one CPU of one of the two cores and calls  *)
(* its methods from a single thread.                                       *)
(*   core      the crate the CPU comes from                                *)
(*   cpu       the struct                                                  *)
(*   ret       what the last call returned                                 *)
(*   panicked  a call has panicked; nothing catches the unwind, so no      *)
(*             further call is made                                        *)
(*   cycles, loads   execute_cycle and load_rom calls made so far          *)
(*   timer_run, timer_from   the step_timers calls made in a row, and dt   *)
(*             and st as they were when that run began                     *)
(*   saved     what the Fx75 instructions executed so far have stored      *)
(*   rom       the buffer last handed to load_rom                          *)
(*   twin      a clone of the CPU (the struct derives Clone) and whether a  *)
(*             call on it has panicked; None until a clone is taken        *)
(*   frontend  the state of the driver's window: the State of gui.rs, the  *)
(*             ControlFlow of the event loop, the calls the last event     *)
(*             handler made on the CPU, and the keys held down             *)
(***************************************************************************)
VARIABLES core, cpu, ret, panicked, cycles, loads, timer_run, timer_from, saved, rom,
          twin, frontend

vars ==
    <<core, cpu, ret, panicked, cycles, loads, timer_run, timer_from, saved, rom, twin,
      frontend>>

(***************************************************************************)
(* Bounds of the exploration.                                              *)
(***************************************************************************)
MaxCycles == 3
MaxLoads == 2
MaxHaltCycles == 4
MaxTimerRun == 6
MaxTimerCycles == 4
MaxStepCycles == 6
MaxStackWords == 2
MaxStackCycles == 34
MaxJumpWords == 2
MaxJumpCycles == 4
MaxIndexCycles == 5
MaxAluCycles == 3
MaxKeyCycles == 3
MaxDrawCycles == 8
MaxOpsCycles == 243
MaxTwinCycles == 6
MaxSuperCycles == 7
MaxInputCycles == 3
MaxGuiCycles == 3
MaxGuiLoads == 2
MaxEmulatorCycles == 4

\* Big-endian bytes of a sequence of instruction words.
Bytes(ws) ==
    [k \in 1..(2 * Len(ws)) |->
        IF k % 2 = 1 THEN ws[(k + 1) \div 2] \div 256 ELSE ws[k \div 2] % 256]

\* A buffer of the given length: the program, zero padding, a last byte.
Padded(ws, length) ==
    [k \in 1..length |->
        IF k <= 2 * Len(ws) THEN Bytes(ws)[k]
        ELSE IF k = length THEN 171 ELSE 0]

\* The programs the driver loads, as sequences of instruction words.
Programs ==
    { <<24581, 61557>>,       \* 6005 F075   LD V0, 5; LD R, V0
      <<61573>>,              \* F085        LD V0, R
      <<253>>,                \* 00FD        EXIT
      <<8704>>,               \* 2200        CALL 0x200
      <<24581, 61525>>,       \* 6005 F055   LD V0, 5; LD [I], V0
      <<24581, 61461>>,       \* 6005 F015   LD V0, 5; LD DT, V0
      <<255, 53253>> }        \* 00FF D005   HIGH; DRW V0, V0, 5

Roms == {Bytes(ws) : ws \in Programs} \cup {<< >>}

\* The empty buffer and 6005 F015: LD V0, 5; LD DT, V0
ShortRoms == {<< >>, Bytes(<<24581, 61461>>)}

\* 6005 F075 and F085, as above.
FlagPrograms == {<<24581, 61557>>, <<61573>>}

\* 6001 F015 00FD: LD V0, 1; LD DT, V0; EXIT, and 2200: CALL 0x200
HaltPrograms == {<<24577, 61461, 253>>, <<8704>>}

\* Buffers around the longest ROM load_rom takes.
LongRoms ==
    {Padded(<<8704>>, length) : length \in {MAX_ROM_LEN, MAX_ROM_LEN + 1, MEMORY_SIZE}}

\* 6xkk F015 6xkk F018: LD V0, a; LD DT, V0; LD V0, b; LD ST, V0
TimerValues == {0, 1, 5, 255}

TimerPrograms == {<<24576 + a, 61461, 24576 + b, 61464>> : a \in TimerValues, b \in TimerValues}

\* 6005 F015 6103 F118: LD V0, 5; LD DT, V0; LD V1, 3; LD ST, V1, then one
\* instruction word with second nibble 0 or 1 and any other nibbles.
Prelude == <<24581, 61461, 24835, 61720>>

Opcodes == {(n1 * 4096) + (n2 * 256) + kk : n1 \in 0..15, n2 \in {0, 1}, kk \in 0..255}

\* 2200 CALL 0x200, 2202 CALL 0x202, 00EE RET
StackWords == {8704, 8706, 238}

StackPrograms == UNION {[1..m -> StackWords] : m \in 1..MaxStackWords}

\* 1FFC JP 0xFFC, 1FFE JP 0xFFE, 1FFF JP 0xFFF, 2FFF CALL 0xFFF,
\* BFFF JP V0, 0xFFF, 60FF LD V0, 255, 3000 SE V0, 0, 00EE RET
JumpWords == {8188, 8190, 8191, 12287, 49151, 24831, 12288, 238}

JumpPrograms == UNION {[1..m -> JumpWords] : m \in 1..MaxJumpWords}

\* 6005 6103 6F07 Annn, then one instruction that works on memory at I.
IndexValues == {512, 768, 4064, 4065, 4080, 4081, 4093, 4094, 4095}

\* F033 F133 LD B, Vx   F055 F155 FF55 LD [I], Vx   F065 F165 FF65 LD Vx, [I]
\* D011 D012 D01F DRW V0, V1, n   D010 DRW V0, V1, 0
IndexWords == {61491, 61747, 61525, 61781, 65365, 61541, 61797, 65381,
               53265, 53266, 53279, 53264}

IndexPrograms ==
    {<<24581, 24835, 28423, 40960 + i, w>> : i \in IndexValues, w \in IndexWords}

\* 6xaa 6ybb 8xyN: LD Vx, a; LD Vy, b; then ADD, SUB, SHR, SUBN or SHL Vx, Vy
AluRegisters == {0, 1, 15}

AluValues == {0, 1, 4, 5, 128, 161, 255}

AluOps == {4, 5, 6, 7, 14}

AluPrograms ==
    {<<24576 + (x * 256) + a, 24576 + (y * 256) + b, 32768 + (x * 256) + (y * 16) + n>> :
        x \in AluRegisters, y \in AluRegisters, a \in AluValues, b \in AluValues,
        n \in AluOps}

Keys == {1}

\* F00A LD V0, K and F10A LD V1, K, and the keys pressed and released
\* around them.
KeyPrograms == {<<61450>>, <<61706>>}

WaitKeys == {0, 3, 15}

\* 00E0 or 00FF, 6xaa, 6ybb, Annn, three times Dxyn, 00FE or 00FF, FF00:
\* CLS or HIGH; LD Vx, a; LD Vy, b; LD I, nnn; DRW Vx, Vy, n three times;
\* LOW or HIGH; and a word of sprite data.  The sprites are the byte FF of
\* the last word (n = 1), the glyph of 0 in the font (n = 5) and, sixteen
\* by sixteen, the 32 bytes from the start of the program (n = 0).
DrawRegisters == {<<0, 1>>, <<15, 1>>, <<0, 15>>}

DrawColumns == {0, 4, 20, 63, 127, 250}

DrawRows == {0, 31, 63, 255}

DrawSprites == {<<1, ROM_START + 16>>, <<5, 0>>, <<0, ROM_START>>}

DrawPrograms ==
    { LET drw == 53248 + (xy[1] * 256) + (xy[2] * 16) + sprite[1]
      IN << mode, 24576 + (xy[1] * 256) + a, 24576 + (xy[2] * 256) + b,
            40960 + sprite[2], drw, drw, drw, last, 65280 >> :
        mode \in {224, 255}, xy \in DrawRegisters, a \in DrawColumns, b \in DrawRows,
        sprite \in DrawSprites, last \in {254, 255} }

\* 6xkk Fx15 Fy07: LD Vx, kk; LD DT, Vx; LD Vy, DT
TimerReadPrograms ==
    { <<24576 + (x * 256) + kk, 61440 + (x * 256) + 21, 61440 + (y * 256) + 7>> :
        x \in {0, 1, 15}, y \in {0, 1, 15}, kk \in {0, 1, 5, 255} }

\* 60aa 6kbb BkF0: LD V0, a; LD Vk, b; JP V0, 0xkF0
IndirectJumpPrograms ==
    { <<24576 + a, 24576 + (k * 256) + b, 45056 + (k * 256) + 240>> :
        k \in {0, 2, 15}, a \in {0, 5, 255}, b \in {1, 7} }

\* 6xkk A300 Fx33: LD Vx, kk; LD I, 0x300; LD B, Vx
BcdPrograms ==
    { <<24576 + (x * 256) + kk, 41728, 61440 + (x * 256) + 51>> :
        x \in {0, 15}, kk \in 0..255 }

\* 6xkk Ex9E and 6xkk ExA1: LD Vx, kk; SKP Vx or SKNP Vx
KeypadPrograms ==
    { <<24576 + (x * 256) + kk, 57344 + (x * 256) + op>> :
        x \in {0, 15}, kk \in {0, 3, 15, 16, 255}, op \in {158, 161} }

\* 60FF AFFF and F01E 241 times: LD V0, 255; LD I, 0xFFF; ADD I, V0 ...
IndexSumProgram == <<24831, 45055>> \o [k \in 1..241 |-> 61470]

OpsPrograms ==
    TimerReadPrograms \cup IndirectJumpPrograms \cup BcdPrograms \cup KeypadPrograms
        \cup {IndexSumProgram}

\* 6005 F015 F107 E39E C0FF 8014: LD V0, 5; LD DT, V0; LD V1, DT; SKP V3;
\*   RND V0, 0xFF; ADD V0, V1
\* 6003 F015 F00A F107 E0A1 D015: LD V0, 3; LD DT, V0; LD V0, K; LD V1, DT;
\*   SKNP V0; DRW V0, V1, 5
\* C00F F00A D005 00FD: RND V0, 0x0F; LD V0, K; DRW V0, V0, 5; EXIT
TwinPrograms ==
    { <<24581, 61461, 61703, 58270, 49407, 32788>>,
      <<24579, 61461, 61450, 61703, 57505, 53269>>,
      <<49167, 61450, 53253, 253>> }

\* 00E0 or 00FF, 60aa, 61bb, Annn, D01n and two scrolls: CLS or HIGH;
\* LD V0, a; LD V1, b; LD I, nnn; DRW V0, V1, n; then two of SCD 0, SCD 1,
\* SCD 5, SCD 15, SCR and SCL.  The sprites are the glyph of 0 (n = 5) and
\* the 32 bytes from the start of the program (n = 0).
ScrollWords == {192, 193, 197, 207, 251, 252}

ScrollPrograms ==
    { << mode, 24576 + a, 24832 + b, 40960 + sprite[2], 53264 + sprite[1], first, second >> :
        mode \in {224, 255}, a \in {0, 2, 60, 126}, b \in {0, 28, 60},
        sprite \in {<<5, 0>>, <<0, ROM_START>>},
        first \in ScrollWords, second \in {193, 251, 252} }

\* 6011 6122 6777 Fx75 6005 6109 Fy85: LD V0, 0x11; LD V1, 0x22; LD V7, 0x77;
\* LD R, Vx; LD V0, 5; LD V1, 9; LD Vy, R
RplPrograms ==
    { <<24593, 24866, 26487, 61440 + (x * 256) + 117, 24581, 24841, 61440 + (y * 256) + 133>> :
        x \in {0, 1, 7, 8, 15}, y \in {0, 1, 7, 8, 15} }

\* 6002 F015 FFFF 1200: LD V0, 2; LD DT, V0; a word that is no instruction;
\* JP 0x200.  F00A 1200: LD V0, K; JP 0x200.
GuiPrograms == {<<24578, 61461, 65535, 4608>>, <<61450, 4608>>}

\* The settings of the Cycles per Frame slider (1 to 2000) tried.
CyclesPerFrame == {1, 3}

\* The byte the generator hands out in a frame; no program run in a window
\* has an RND instruction.
FrameRandomBytes == {165}

\* The keys pressed and released: X is key 0, P is no key.
Keycodes == {"X", "P"}

\* What the user clicks in a frame: nothing, an item of the menu bar or a
\* button of the Debug Controls window.
Clicks ==
    {[widget |-> "none", item |-> "", rom |-> << >>, cycles |-> 0]}
    \cup {[widget |-> "menu", item |-> "Open", rom |-> Bytes(ws), cycles |-> 0] :
            ws \in GuiPrograms}
    \cup {[widget |-> "menu", item |-> item, rom |-> << >>, cycles |-> 0] :
            item \in {"Exit", "Start", "Pause", "Reset", "Debug Controls"}}
    \cup {[widget |-> "menu", item |-> "Cycles per Frame", rom |-> << >>, cycles |-> n] :
            n \in CyclesPerFrame}
    \cup {[widget |-> "button", item |-> item, rom |-> << >>, cycles |-> 0] :
            item \in {"Pause", "Step", "Step Timers"}}

\* 6005 FFFF 6106: a word that is no instruction between two loads.
\* 6005 00FD 6106: EXIT between two loads.  00FD: EXIT.  1200: JP 0x200.
\* 6002 F015 1204: LD V0, 2; LD DT, V0; JP 0x204.
EmulatorPrograms ==
    { <<24581, 65535, 24838>>, <<24581, 253, 24838>>, <<253>>, <<4608>>,
      <<24578, 61461, 4612>> }

RandomBytes == {0, 165}

Cores == {"ferrous-core", "ch8-core"}

InitOf(cores) ==
    /\ core \in cores
    /\ cpu = IF core = "ch8-core" THEN ch8_new ELSE new
    /\ ret = Unit
    /\ panicked = FALSE
    /\ cycles = 0
    /\ loads = 0
    /\ timer_run = 0
    /\ timer_from = <<0, 0>>
    /\ saved = [k \in 0..(FLAG_REGS - 1) |-> 0]
    /\ rom = << >>
    /\ twin = None
    /\ frontend = UserInterface_new

Init == InitOf({"ferrous-core"})

NoTimerRun == timer_run' = 0 /\ timer_from' = <<0, 0>>

\* The word the next execute_cycle fetches, -1 if it fetches none.
Fetched ==
    IF (core = "ferrous-core" /\ cpu.is_halted) \/ cpu.pc + 1 >= MEMORY_SIZE THEN -1
    ELSE fetch_opcode(cpu)

\* cpu.load_rom(&buffer)
Load(buffer) ==
    /\ ~panicked
    /\ LET r == load_rom(cpu, buffer)
       IN cpu' = r.cpu /\ ret' = IF r.ok THEN Ok ELSE Err(0)
    /\ rom' = buffer
    /\ loads' = loads + 1
    /\ NoTimerRun
    /\ UNCHANGED <<core, panicked, cycles, saved, twin, frontend>>

\* cpu.execute_cycle(), random being the byte the generator would hand out
Run(random) ==
    /\ ~panicked
    /\ LET r == IF core = "ch8-core" THEN ch8_execute_cycle(cpu, random)
                ELSE execute_cycle(cpu, random)
       IN cpu' = r.cpu /\ panicked' = r.panic /\ ret' = r.ret
    /\ cycles' = cycles + 1
    /\ NoTimerRun
    /\ saved' =
        IF core = "ferrous-core" /\ Fetched >= 61440 /\ Fetched % 256 = 117
              /\ (Fetched \div 256) % 16 < FLAG_REGS
        THEN [k \in 0..(FLAG_REGS - 1) |->
                IF k <= (Fetched \div 256) % 16 THEN cpu.register[k] ELSE saved[k]]
        ELSE saved
    /\ UNCHANGED <<core, loads, rom, frontend>>

Execute(random) == Run(random) /\ UNCHANGED twin

LoadRom == loads < MaxLoads /\ \E buffer \in Roms : Load(buffer)

ExecuteCycle == cycles < MaxCycles /\ \E random \in RandomBytes : Execute(random)

Reset ==
    /\ ~panicked
    /\ cpu' = reset(cpu)
    /\ ret' = Unit
    /\ NoTimerRun
    /\ UNCHANGED <<core, panicked, cycles, loads, saved, rom, twin, frontend>>

StepTimers ==
    /\ ~panicked
    /\ cpu' = step_timers(cpu)
    /\ ret' = Unit
    /\ NoTimerRun
    /\ UNCHANGED <<core, panicked, cycles, loads, saved, rom, twin, frontend>>

ResetKeys ==
    /\ ~panicked
    /\ cpu' = reset_keys(cpu)
    /\ ret' = Unit
    /\ NoTimerRun
    /\ UNCHANGED <<core, panicked, cycles, loads, saved, rom, twin, frontend>>

SetKey(index, value) ==
    /\ ~panicked
    /\ LET r == set_key_at_index(cpu, index, value)
       IN cpu' = r.cpu /\ panicked' = r.panic /\ ret' = IF r.panic THEN Unwound ELSE Unit
    /\ NoTimerRun
    /\ UNCHANGED <<core, cycles, loads, saved, rom, twin, frontend>>

SetKeyAtIndex == \E index \in Keys, value \in BOOLEAN : SetKey(index, value)

SetLoadStore ==
    /\ ~panicked
    /\ core = "ferrous-core"
    /\ \E value \in BOOLEAN : cpu' = set_load_store(cpu, value)
    /\ ret' = Unit
    /\ NoTimerRun
    /\ UNCHANGED <<core, panicked, cycles, loads, saved, rom, twin, frontend>>

SetShift ==
    /\ ~panicked
    /\ core = "ferrous-core"
    /\ \E value \in BOOLEAN : cpu' = set_shift(cpu, value)
    /\ ret' = Unit
    /\ NoTimerRun
    /\ UNCHANGED <<core, panicked, cycles, loads, saved, rom, twin, frontend>>

SetJump ==
    /\ ~panicked
    /\ core = "ferrous-core"
    /\ \E value \in BOOLEAN : cpu' = set_jump(cpu, value)
    /\ ret' = Unit
    /\ NoTimerRun
    /\ UNCHANGED <<core, panicked, cycles, loads, saved, rom, twin, frontend>>

(***************************************************************************)
(* Spec: every method of the ferrous-core CPU, called in any order, on     *)
(* short programs.                                                         *)
(***************************************************************************)
Next ==
    \/ LoadRom
    \/ ExecuteCycle
    \/ Reset
    \/ StepTimers
    \/ ResetKeys
    \/ SetKeyAtIndex
    \/ SetLoadStore
    \/ SetShift
    \/ SetJump

Spec == Init /\ [][Next]_vars

(***************************************************************************)
(* SpecLoad: load_rom with an empty buffer, a short one and buffers around *)
(* the length limit, called on a CPU of either core that programs, keys,   *)
(* timers and a quirk have marked.                                         *)
(***************************************************************************)
LoadShortRom == loads < MaxLoads /\ \E buffer \in ShortRoms : Load(buffer)

LoadLongRom == loads < MaxLoads /\ \E buffer \in LongRoms : Load(buffer)

InitLoad == InitOf(Cores)

NextLoad ==
    \/ LoadShortRom
    \/ LoadLongRom
    \/ ExecuteCycle
    \/ StepTimers
    \/ SetKeyAtIndex
    \/ SetShift

SpecLoad == InitLoad /\ [][NextLoad]_vars

(***************************************************************************)
(* SpecReset: programs that store and read back the flag registers, the    *)
(* quirk setters and reset.                                                *)
(***************************************************************************)
LoadFlagRom == loads < MaxLoads /\ \E ws \in FlagPrograms : Load(Bytes(ws))

NextReset ==
    \/ LoadFlagRom
    \/ ExecuteCycle
    \/ Reset
    \/ SetLoadStore
    \/ SetShift
    \/ SetJump

SpecReset == Init /\ [][NextReset]_vars

(***************************************************************************)
(* SpecHalt: a program that halts, and every method called around it.      *)
(***************************************************************************)
LoadHaltRom == loads < MaxLoads /\ \E ws \in HaltPrograms : Load(Bytes(ws))

ExecuteHalt == cycles < MaxHaltCycles /\ \E random \in RandomBytes : Execute(random)

NextHalt ==
    \/ LoadHaltRom
    \/ ExecuteHalt
    \/ Reset
    \/ StepTimers
    \/ ResetKeys
    \/ SetKeyAtIndex
    \/ SetLoadStore
    \/ SetShift
    \/ SetJump

SpecHalt == Init /\ [][NextHalt]_vars

(***************************************************************************)
(* SpecTimers: programs that set both timers, and runs of step_timers.     *)
(***************************************************************************)
LoadTimerRom == loads = 0 /\ cycles = 0 /\ \E ws \in TimerPrograms : Load(Bytes(ws))

ExecuteTimerRom == cycles < MaxTimerCycles /\ \E random \in RandomBytes : Execute(random)

StepTimersRun ==
    /\ ~panicked
    /\ timer_run < MaxTimerRun
    /\ cpu' = step_timers(cpu)
    /\ ret' = Unit
    /\ timer_run' = timer_run + 1
    /\ timer_from' = IF timer_run = 0 THEN <<cpu.dt, cpu.st>> ELSE timer_from
    /\ UNCHANGED <<core, panicked, cycles, loads, saved, rom, twin, frontend>>

NextTimers == LoadTimerRom \/ ExecuteTimerRom \/ StepTimersRun

SpecTimers == Init /\ [][NextTimers]_vars

(***************************************************************************)
(* SpecStep: on either core, the prelude followed by one instruction word  *)
(* out of Opcodes, and the cycle after it.                                 *)
(***************************************************************************)
LoadProgram == loads = 0 /\ cycles = 0 /\ \E opcode \in Opcodes : Load(Bytes(Prelude \o <<opcode>>))

ExecuteStep == cycles < MaxStepCycles /\ \E random \in RandomBytes : Execute(random)

InitStep == InitOf(Cores)

NextStep == LoadProgram \/ ExecuteStep

SpecStep == InitStep /\ [][NextStep]_vars

(***************************************************************************)
(* SpecStack: programs of CALL and RET, run until the stack gives way.     *)
(***************************************************************************)
LoadStackRom == loads = 0 /\ cycles = 0 /\ \E ws \in StackPrograms : Load(Bytes(ws))

ExecuteStack == cycles < MaxStackCycles /\ \E random \in RandomBytes : Execute(random)

\* 0000 00EE written over the program once the stack is full.
LoadReturns == loads = 1 /\ cpu.sp = STACK_SIZE /\ Load(Bytes(<<0, 238>>))

NextStack == LoadStackRom \/ ExecuteStack \/ LoadReturns

SpecStack == Init /\ [][NextStack]_vars

(***************************************************************************)
(* SpecJump: programs of jumps, calls, returns and skips that aim at the   *)
(* last bytes of memory.                                                   *)
(***************************************************************************)
LoadJumpRom == loads = 0 /\ cycles = 0 /\ \E ws \in JumpPrograms : Load(Bytes(ws))

ExecuteJump == cycles < MaxJumpCycles /\ \E random \in RandomBytes : Execute(random)

NextJump == LoadJumpRom \/ ExecuteJump

SpecJump == Init /\ [][NextJump]_vars

(***************************************************************************)
(* SpecIndex: the instructions that work on memory at I, with I in the     *)
(* middle of memory and around its end, under both settings of the         *)
(* load/store quirk.                                                       *)
(***************************************************************************)
SetLoadStoreFirst == loads = 0 /\ SetLoadStore

LoadIndexRom == loads = 0 /\ cycles = 0 /\ \E ws \in IndexPrograms : Load(Bytes(ws))

ExecuteIndex == cycles < MaxIndexCycles /\ \E random \in RandomBytes : Execute(random)

NextIndex == SetLoadStoreFirst \/ LoadIndexRom \/ ExecuteIndex

SpecIndex == Init /\ [][NextIndex]_vars

(***************************************************************************)
(* SpecAlu: the arithmetic and shift instructions on registers 0, 1 and F, *)
(* on values around the ends of a byte, under both settings of the shift   *)
(* quirk.                                                                  *)
(***************************************************************************)
SetShiftFirst == loads = 0 /\ SetShift

LoadAluRom == loads = 0 /\ cycles = 0 /\ \E ws \in AluPrograms : Load(Bytes(ws))

ExecuteAlu == cycles < MaxAluCycles /\ \E random \in RandomBytes : Execute(random)

NextAlu == SetShiftFirst \/ LoadAluRom \/ ExecuteAlu

SpecAlu == Init /\ [][NextAlu]_vars

(***************************************************************************)
(* SpecKey: a program waiting for a key, and key events around it.  The    *)
(* frontend runs execute_cycle on every frame for as long as the emulator  *)
(* is running, which is the fairness stated.                               *)
(***************************************************************************)
LoadKeyRom == loads = 0 /\ cycles = 0 /\ \E ws \in KeyPrograms : Load(Bytes(ws))

ExecuteKey == cycles < MaxKeyCycles /\ \E random \in RandomBytes : Execute(random)

SetWaitKey == \E index \in WaitKeys, value \in BOOLEAN : SetKey(index, value)

NextKey == LoadKeyRom \/ ExecuteKey \/ SetWaitKey \/ ResetKeys

SpecKey == Init /\ [][NextKey]_vars /\ WF_vars(ExecuteKey)

(***************************************************************************)
(* SpecDraw: programs that draw a sprite three times and then set the      *)
(* resolution, in both modes, at coordinates on and beyond the edges of    *)
(* the display.  The driver keeps a clone of the CPU as it was before the  *)
(* cycle.                                                                  *)
(***************************************************************************)
LoadDrawRom == loads = 0 /\ cycles = 0 /\ \E ws \in DrawPrograms : Load(Bytes(ws))

ExecuteDraw ==
    /\ cycles < MaxDrawCycles
    /\ \E random \in RandomBytes : Run(random)
    /\ twin' = Some(Done(cpu))

NextDraw == LoadDrawRom \/ ExecuteDraw

SpecDraw == Init /\ [][NextDraw]_vars

(***************************************************************************)
(* SpecOps: short programs that set registers and execute one instruction  *)
(* on them, and one long program that adds to I, each run to its last      *)
(* word, with the jump quirk and the keys set at any time.                 *)
(***************************************************************************)
LoadOpsRom == loads = 0 /\ cycles = 0 /\ \E ws \in OpsPrograms : Load(Bytes(ws))

ExecuteOps ==
    /\ cycles < MaxOpsCycles
    /\ cpu.pc < ROM_START + Len(rom)
    /\ \E random \in RandomBytes : Execute(random)

NextOps == LoadOpsRom \/ ExecuteOps \/ SetJump \/ SetWaitKey

SpecOps == Init /\ [][NextOps]_vars

(***************************************************************************)
(* SpecTwin: a program is loaded and run; at some point the CPU is cloned, *)
(* which is what restoring a saved state into a second machine gives, and  *)
(* from then on the driver makes every call on both, each machine with a   *)
(* random generator of its own.                                            *)
(***************************************************************************)
LoadTwinRom == loads = 0 /\ cycles = 0 /\ \E ws \in TwinPrograms : Load(Bytes(ws))

CloneCpu ==
    /\ ~panicked
    /\ loads = 1
    /\ twin.tag = "None"
    /\ twin' = Some(Done(cpu))
    /\ UNCHANGED <<core, cpu, ret, panicked, cycles, loads, timer_run, timer_from, saved, rom,
                   frontend>>

ExecuteBoth ==
    /\ cycles < MaxTwinCycles
    /\ \E random \in RandomBytes : Run(random)
    /\ IF twin.tag = "None" \/ twin.val.panic THEN UNCHANGED twin
       ELSE \E random \in RandomBytes :
               LET r == execute_cycle(twin.val.cpu, random)
               IN twin' = Some([cpu |-> r.cpu, panic |-> r.panic])

StepTimersBoth ==
    /\ ~panicked
    /\ cpu' = step_timers(cpu)
    /\ ret' = Unit
    /\ NoTimerRun
    /\ IF twin.tag = "None" \/ twin.val.panic THEN UNCHANGED twin
       ELSE twin' = Some(Done(step_timers(twin.val.cpu)))
    /\ UNCHANGED <<core, panicked, cycles, loads, saved, rom, frontend>>

SetKeyBoth ==
    \E index \in WaitKeys, value \in BOOLEAN :
        /\ ~panicked
        /\ LET r == set_key_at_index(cpu, index, value)
           IN cpu' = r.cpu /\ panicked' = r.panic /\ ret' = IF r.panic THEN Unwound ELSE Unit
        /\ NoTimerRun
        /\ IF twin.tag = "None" \/ twin.val.panic THEN UNCHANGED twin
           ELSE twin' = Some(set_key_at_index(twin.val.cpu, index, value))
        /\ UNCHANGED <<core, cycles, loads, saved, rom, frontend>>

NextTwin == LoadTwinRom \/ CloneCpu \/ ExecuteBoth \/ StepTimersBoth \/ SetKeyBoth

SpecTwin == Init /\ [][NextTwin]_vars

(***************************************************************************)
(* SpecSuper: programs of the SuperCHIP instructions, a sprite scrolled    *)
(* twice in either resolution and the flag registers stored and read back, *)
(* with reset and step_timers called at any time.                          *)
(***************************************************************************)
LoadSuperRom ==
    loads = 0 /\ cycles = 0 /\ \E ws \in ScrollPrograms \cup RplPrograms : Load(Bytes(ws))

ExecuteSuper == cycles < MaxSuperCycles /\ \E random \in RandomBytes : Execute(random)

NextSuper == LoadSuperRom \/ ExecuteSuper \/ Reset \/ StepTimers

SpecSuper == Init /\ [][NextSuper]_vars

(***************************************************************************)
(* SpecInputs: programs that wait for a key, test a key or store the flag  *)
(* registers, with the keys and the quirks set before and while they run.  *)
(***************************************************************************)
LoadInputRom ==
    loads = 0 /\ cycles = 0
    /\ \E ws \in KeyPrograms \cup KeypadPrograms \cup FlagPrograms : Load(Bytes(ws))

ExecuteInput == cycles < MaxInputCycles /\ \E random \in RandomBytes : Execute(random)

NextInputs ==
    \/ LoadInputRom
    \/ ExecuteInput
    \/ StepTimers
    \/ Reset
    \/ SetWaitKey
    \/ ResetKeys
    \/ SetLoadStore
    \/ SetShift
    \/ SetJump

SpecInputs == Init /\ [][NextInputs]_vars

(***************************************************************************)
(* SpecGui: the event loop of ferrous-native/src/frontend.rs.  The events  *)
(* are redraws, in which the user may have clicked a widget, key presses   *)
(* and releases, and the request to close the window.  Every event is      *)
(* handled to its end before the next one, on one thread.                  *)
(***************************************************************************)
Executed(calls) == Cardinality({k \in DOMAIN calls : calls[k] = "execute_cycle"})

\* The handler of a redraw has left r.
Redrawn(r) ==
    /\ cpu' = r.cpu
    /\ panicked' = r.panic
    /\ frontend' = [r.state EXCEPT !.event = "RedrawRequested"]
    /\ ret' = IF r.panic THEN Unwound ELSE Unit
    /\ cycles' = cycles + Executed(r.state.calls) + Executed(r.state.buttons)
    /\ NoTimerRun
    /\ UNCHANGED <<core, saved, twin>>

RedrawRequested ==
    /\ ~panicked
    /\ frontend.control_flow = "Poll"
    /\ cycles < MaxGuiCycles
    /\ \E click \in Clicks, random \in FrameRandomBytes :
        /\ click.item = "Open" => loads < MaxGuiLoads
        /\ Redrawn(redraw(frontend, cpu, click, random))
        /\ loads' = IF click.item = "Open" /\ ~panicked' THEN loads + 1 ELSE loads
        /\ rom' = IF click.item = "Open" /\ ~panicked' THEN click.rom ELSE rom

\* WindowEvent::KeyboardInput, handled only while Running.
KeyboardInput ==
    /\ ~panicked
    /\ frontend.control_flow = "Poll"
    /\ \E keycode \in Keycodes, pressed \in BOOLEAN :
        LET r == IF frontend.emulator_state = "Running"
                 THEN handle_keyboard_event(cpu, keycode, pressed)
                 ELSE Done(cpu)
        IN /\ cpu' = r.cpu
           /\ panicked' = r.panic
           /\ frontend' = [frontend EXCEPT
                             !.keys_down = IF pressed THEN @ \cup {keycode} ELSE @ \ {keycode},
                             !.event = "KeyboardInput", !.calls = << >>, !.buttons = << >>]
    /\ ret' = Unit
    /\ NoTimerRun
    /\ UNCHANGED <<core, cycles, loads, saved, rom, twin>>

\* WindowEvent::CloseRequested and WindowEvent::Destroyed
CloseRequested ==
    /\ ~panicked
    /\ frontend.control_flow = "Poll"
    /\ frontend' = [frontend EXCEPT !.control_flow = "Exit", !.event = "CloseRequested",
                                    !.calls = << >>, !.buttons = << >>]
    /\ ret' = Unit
    /\ NoTimerRun
    /\ UNCHANGED <<core, cpu, panicked, cycles, loads, saved, rom, twin>>

NextGui == RedrawRequested \/ KeyboardInput \/ CloseRequested

SpecGui == Init /\ [][NextGui]_vars

(***************************************************************************)
(* SpecEmulator: src/main.rs loads the ROM and hands the CPU and the       *)
(* cycles of a frame to emulator::start, whose event loop redraws and      *)
(* takes key events.                                                       *)
(***************************************************************************)
StartEmulator ==
    /\ ~panicked
    /\ loads = 0
    /\ \E ws \in EmulatorPrograms, n \in CyclesPerFrame \cup {2} :
        LET r == load_rom(cpu, Bytes(ws))
        IN /\ r.ok
           /\ cpu' = r.cpu
           /\ rom' = Bytes(ws)
           /\ frontend' = [frontend EXCEPT !.emulator_state = "Running", !.rom_loaded = TRUE,
                                           !.cycles_per_frame = n]
    /\ ret' = Unit
    /\ loads' = loads + 1
    /\ NoTimerRun
    /\ UNCHANGED <<core, panicked, cycles, saved, twin>>

EmulatorRedraw ==
    /\ ~panicked
    /\ loads = 1
    /\ frontend.control_flow = "Poll"
    /\ cycles < MaxEmulatorCycles
    /\ \E random \in FrameRandomBytes : Redrawn(emulator_redraw(frontend, cpu, random))
    /\ UNCHANGED <<loads, rom>>

\* WindowEvent::KeyboardInput of emulator.rs
EmulatorKeyboardInput ==
    /\ ~panicked
    /\ loads = 1
    /\ frontend.control_flow = "Poll"
    /\ \E keycode \in Keycodes, pressed \in BOOLEAN :
        LET r == handle_keyboard_event(cpu, keycode, pressed)
        IN /\ cpu' = r.cpu
           /\ panicked' = r.panic
           /\ frontend' = [frontend EXCEPT
                             !.keys_down = IF pressed THEN @ \cup {keycode} ELSE @ \ {keycode},
                             !.event = "KeyboardInput", !.calls = << >>]
    /\ ret' = Unit
    /\ NoTimerRun
    /\ UNCHANGED <<core, cycles, loads, saved, rom, twin>>

NextEmulator == StartEmulator \/ EmulatorRedraw \/ EmulatorKeyboardInput

SpecEmulator == Init /\ [][NextEmulator]_vars

(***************************************************************************)
(* Properties.                                                             *)
(***************************************************************************)
IsLoad == loads' = loads + 1

IsExecute == cycles' = cycles + 1

\* The bytes at pc and pc + 1 of c, the first one high.
WordAtPc(c) == (get(c.memory, c.pc) * 256) + get(c.memory, c.pc + 1)

\* The fields of c other than memory.
BesidesMemory(c) == [c EXCEPT !.memory = zeroes]

\* The instruction words the ferrous-core instruction set lists.
Listed(w) ==
    LET a == w \div 4096
        low == w % 16
        kk == w % 256
    IN \/ a \in {1, 2, 3, 4, 6, 7, 10, 11, 12, 13}
       \/ a = 0 /\ (w \in {224, 238, 251, 252, 253, 254, 255} \/ w \div 16 = 12)
       \/ a \in {5, 9} /\ low = 0
       \/ a = 8 /\ low \in (0..7) \cup {14}
       \/ a = 14 /\ kk \in {158, 161}
       \/ a = 15 /\ kk \in {7, 10, 21, 24, 30, 41, 48, 51, 85, 101, 117, 133}

\* The words among them that ch8-core, which has no SuperCHIP, takes.
ListedCh8(w) ==
    /\ Listed(w)
    /\ w \div 4096 = 0 => w \in {224, 238}
    /\ w \div 4096 = 15 => w % 256 \notin {48, 117, 133}

IsUnknown(w) == IF core = "ch8-core" THEN ~ListedCh8(w) ELSE ~Listed(w)

\* C1: load_rom with a buffer longer than 3584 bytes returns an error and
\* leaves every field of the CPU as it was.
C1_LoadRomTooLong ==
    [][(IsLoad /\ Len(rom') > MAX_ROM_LEN) => (ret'.tag = "Err" /\ cpu' = cpu)]_vars

C1_Witness ==
    /\ Len(rom) = MAX_ROM_LEN + 1
    /\ ret.tag = "Err"
    /\ cycles > 0
    /\ cpu.pc # ROM_START

\* C2: load_rom with a buffer of L <= 3584 bytes, 0 and 3584 included,
\* succeeds, leaves memory[0x200 + k] = buffer[k] for every k < L, and
\* changes no other byte of memory and no other field.
C2_LoadRomCopies ==
    [][(IsLoad /\ Len(rom') <= MAX_ROM_LEN) =>
        /\ ret' = Ok
        /\ \A k \in 1..Len(rom') : get(cpu'.memory, ROM_START + k - 1) = rom'[k]
        /\ \A a \in DOMAIN cpu.memory \cup DOMAIN cpu'.memory :
             (a < ROM_START \/ a >= ROM_START + Len(rom')) =>
                 get(cpu'.memory, a) = get(cpu.memory, a)
        /\ DOMAIN cpu'.memory \subseteq 0..(MEMORY_SIZE - 1)
        /\ BesidesMemory(cpu') = BesidesMemory(cpu)]_vars

C2_Witness ==
    /\ Len(rom) = MAX_ROM_LEN
    /\ ret = Ok
    /\ get(cpu.memory, MEMORY_SIZE - 1) = 171
    /\ get(cpu.memory, ROM_START) = 34
    /\ cycles > 0

\* The fields reset is said to restore, the quirks and flag registers masked.
ResetView(c) ==
    [c EXCEPT !.load_store_quirk = FALSE, !.shift_quirk = FALSE, !.jump_quirk = FALSE,
              !.flag_regs = [k \in 0..(FLAG_REGS - 1) |-> 0]]

\* C3: after reset, every field other than the three quirk flags and the
\* eight flag registers equals its value in a freshly constructed CPU: pc
\* 0x200, sp 0, all sixteen stack slots 0, registers, i and both timers 0,
\* display clear, keys up, low resolution, not halted, and memory holding the
\* fonts in [0, 240) and zero elsewhere.
C3_ResetRestoresFresh == [][Reset => ResetView(cpu') = new]_vars

\* C4: reset leaves the three quirk flags and the eight flag registers as
\* they were; what Fx75 stored before a reset, Fx85 reads back after it.
C4_ResetKeepsQuirksAndFlags ==
    [][/\ Reset =>
            /\ cpu'.load_store_quirk = cpu.load_store_quirk
            /\ cpu'.shift_quirk = cpu.shift_quirk
            /\ cpu'.jump_quirk = cpu.jump_quirk
            /\ cpu'.flag_regs = cpu.flag_regs
       /\ cpu'.flag_regs = saved'
       /\ (IsExecute /\ ~panicked' /\ Fetched >= 61440 /\ Fetched % 256 = 133) =>
            \A k \in 0..((Fetched \div 256) % 16) : cpu'.register[k] = saved[k]]_vars

C4_Witness ==
    /\ ret = Some(61573)
    /\ cpu.pc = ROM_START + 2
    /\ cpu.register[0] = 5
    /\ saved[0] = 5
    /\ cpu.shift_quirk

\* C5: once the CPU is halted it stays halted through execute_cycle,
\* step_timers, key events, quirk setters and load_rom, until reset; while it
\* is halted every execute_cycle returns None and changes nothing.
C5_HaltedStaysHalted ==
    [][cpu.is_halted =>
        /\ ~Reset => cpu'.is_halted
        /\ IsExecute => (ret' = None /\ cpu' = cpu /\ ~panicked')]_vars

C5_Witness ==
    /\ cpu.is_halted
    /\ ret = None
    /\ cycles = 4
    /\ cpu.pc = ROM_START + 6
    /\ rom = <<34, 0>>
    /\ cpu.dt = 0
    /\ cpu.shift_quirk

\* C6: step_timers lowers dt and st by one each when non-zero, independently,
\* and changes no other field; after a run of k calls from dt0 and st0 the
\* timers are max(dt0 - k, 0) and max(st0 - k, 0).
C6_StepTimers ==
    [][StepTimersRun =>
        /\ cpu'.dt = IF cpu.dt > 0 THEN cpu.dt - 1 ELSE 0
        /\ cpu'.st = IF cpu.st > 0 THEN cpu.st - 1 ELSE 0
        /\ [cpu' EXCEPT !.dt = cpu.dt, !.st = cpu.st] = cpu
        /\ cpu'.dt = IF timer_from'[1] > timer_run' THEN timer_from'[1] - timer_run' ELSE 0
        /\ cpu'.st = IF timer_from'[2] > timer_run' THEN timer_from'[2] - timer_run' ELSE 0]_vars

C6_Witness ==
    /\ timer_from = <<255, 5>>
    /\ timer_run = 6
    /\ cpu.dt = 249
    /\ cpu.st = 0

\* C7: within execute_cycle only Fx15 writes dt and only Fx18 writes st: Fx15
\* sets dt to Vx, Fx18 sets st to Vx, Fx07 copies dt to Vx and leaves dt, and
\* every other instruction leaves both timers as they were.
C7_TimerWrites ==
    [][IsExecute =>
        LET w == Fetched
            x == (w \div 256) % 16
        IN /\ cpu'.dt = IF w >= 61440 /\ w % 256 = 21 THEN cpu.register[x] ELSE cpu.dt
           /\ cpu'.st = IF w >= 61440 /\ w % 256 = 24 THEN cpu.register[x] ELSE cpu.st
           /\ (w >= 61440 /\ w % 256 = 7) => cpu'.register[x] = cpu.dt]_vars

C7_Witness ==
    /\ core = "ferrous-core"
    /\ ret = Some(61717)
    /\ cpu.dt = 3
    /\ cpu.st = 3
    /\ cpu.register[0] = 5

\* C8: a word that matches no listed instruction causes no fault and is
\* signalled, by None in ferrous-core and by Err(word) in ch8-core; pc has
\* moved on by exactly 2 and every other field is as it was.
C8_UnknownOpcode ==
    [][(IsExecute /\ Fetched # -1 /\ IsUnknown(Fetched)) =>
        /\ ~panicked'
        /\ ret' = IF core = "ch8-core" THEN Err(Fetched) ELSE None
        /\ cpu' = [cpu EXCEPT !.pc = @ + 2]]_vars

C8_Witness ==
    /\ core = "ferrous-core"
    /\ ret = None
    /\ ~cpu.is_halted
    /\ cpu.pc = ROM_START + 10
    /\ get(cpu.memory, ROM_START + 8) = 80
    /\ get(cpu.memory, ROM_START + 9) = 1

C10_StackNeverFaults == ~panicked /\ cpu.sp \in 0..STACK_SIZE

\* C11: in every state reached from a loaded ROM by execute_cycle, after
\* jumps, calls, returns and skips and after running to the end of memory,
\* the two bytes at pc and pc + 1 lie inside the 4096 bytes of memory.
C11_PcInMemory == loads > 0 => cpu.pc + 1 < MEMORY_SIZE

\* C12: no instruction reads or writes memory outside [0, 4096): the
\* accesses of Fx33, Fx55, Fx65, Dxyn and Dxy0 relative to I are checked and
\* clamped or rejected, whatever I and the operands are.
C12_IndexedAccessChecked == ~panicked /\ DOMAIN cpu.memory \subseteq 0..(MEMORY_SIZE - 1)

\* C13: 2nnn executed at address a stores a + 2 in stack[sp], adds one to sp
\* and sets pc to nnn; 00EE takes one from sp and sets pc to stack[sp]; no
\* other instruction touches the stack or sp.  So the returns land, in
\* reverse order, on the instructions that follow the calls.
C13_CallRetLifo ==
    [][(IsExecute /\ ~panicked') =>
        LET w == Fetched
            a == cpu.pc
        IN IF w \div 4096 = 2
           THEN cpu' = [cpu EXCEPT !.stack[cpu.sp] = a + 2, !.sp = cpu.sp + 1,
                                   !.pc = w % 4096]
           ELSE IF w = 238
           THEN cpu' = [cpu EXCEPT !.sp = cpu.sp - 1, !.pc = cpu.stack[cpu.sp - 1]]
           ELSE cpu'.stack = cpu.stack /\ cpu'.sp = cpu.sp]_vars

C13_Witness ==
    /\ loads = 2
    /\ cycles = 33
    /\ ret = Some(238)
    /\ cpu.sp = 0
    /\ cpu.pc = ROM_START + 2
    /\ \A k \in 0..(STACK_SIZE - 1) : cpu.stack[k] = ROM_START + 2

\* The compare-and-skip words, and whether the condition of w holds in c.
IsSkip(w) == w \div 4096 \in {3, 4} \/ (w \div 4096 \in {5, 9} /\ w % 16 = 0)

SkipTaken(c, w) ==
    LET vx == c.register[(w \div 256) % 16]
        vy == c.register[(w \div 16) % 16]
    IN CASE w \div 4096 = 3 -> vx = w % 256
         [] w \div 4096 = 4 -> vx # w % 256
         [] w \div 4096 = 5 -> vx = vy
         [] w \div 4096 = 9 -> vx # vy

\* C14: 3xkk, 4xkk, 5xy0 and 9xy0 executed at address a leave pc = a + 4 when
\* their condition holds and pc = a + 2 when it does not, and change no
\* register, no memory byte and no other field.
C14_Skips ==
    [][(IsExecute /\ Fetched # -1 /\ IsSkip(Fetched)) =>
        /\ ~panicked'
        /\ cpu' = [cpu EXCEPT !.pc = IF SkipTaken(cpu, Fetched) THEN @ + 4 ELSE @ + 2]]_vars

C14_Witness ==
    /\ ret = Some(16390)
    /\ cycles = 5
    /\ cpu.pc = ROM_START + 12
    /\ cpu.register[0] = 5

\* The step executes a word 8xyN with the given last nibble.
IsAlu(n) == IsExecute /\ Fetched \div 4096 = 8 /\ Fetched % 16 = n

FetchedX == (Fetched \div 256) % 16

FetchedY == (Fetched \div 16) % 16

\* c2 is c1 but for pc and the registers named.
OnlyRegisters(c1, c2, changed) ==
    /\ [c2 EXCEPT !.register = c1.register, !.pc = c1.pc] = c1
    /\ \A k \in 0..15 : k \notin changed => c2.register[k] = c1.register[k]

\* C15: after 8xy4, VF is 1 if Vx + Vy exceeded 255 and 0 otherwise, and for
\* x other than F, Vx is the sum modulo 256; for x = F the flag is what is
\* left in VF.  This for all x and y and all values.
C15_AddCarry ==
    [][IsAlu(4) =>
        LET sum == cpu.register[FetchedX] + cpu.register[FetchedY]
        IN /\ ~panicked'
           /\ cpu'.pc = cpu.pc + 2
           /\ cpu'.register[15] = IF sum > 255 THEN 1 ELSE 0
           /\ FetchedX # 15 => cpu'.register[FetchedX] = sum % 256
           /\ OnlyRegisters(cpu, cpu', {FetchedX, 15})]_vars

C15_Witness ==
    /\ ret = Some(32788)
    /\ cpu.register[0] = 0
    /\ cpu.register[1] = 1
    /\ cpu.register[15] = 1
    /\ rom = <<96, 255, 97, 1, 128, 20>>

\* The flag and the difference of minuend - subtrahend.
SubtractsTo(c1, c2, x, minuend, subtrahend) ==
    /\ c2.register[15] = IF minuend >= subtrahend THEN 1 ELSE 0
    /\ x # 15 => c2.register[x] = (minuend - subtrahend) % 256
    /\ OnlyRegisters(c1, c2, {x, 15})

\* C16: 8xy5 sets Vx = (Vx - Vy) mod 256 with VF = 1 iff Vx >= Vy; 8xy7 sets
\* Vx = (Vy - Vx) mod 256 with VF = 1 iff Vy >= Vx; for all x and y, the flag
\* being what is left in VF also when x = F or y = F.
C16_SubtractNotBorrow ==
    [][/\ IsAlu(5) =>
            /\ ~panicked'
            /\ SubtractsTo(cpu, cpu', FetchedX, cpu.register[FetchedX], cpu.register[FetchedY])
       /\ IsAlu(7) =>
            /\ ~panicked'
            /\ SubtractsTo(cpu, cpu', FetchedX, cpu.register[FetchedY], cpu.register[FetchedX])]_vars

C16_Witness ==
    /\ ret = Some(33013)
    /\ cpu.register[0] = 252
    /\ cpu.register[15] = 0
    /\ rom = <<96, 1, 111, 5, 128, 245>>

\* The register the shift instructions take their operand from.
ShiftOperand == IF cpu.shift_quirk THEN FetchedX ELSE FetchedY

\* C17: after 8xy6 VF is the lowest bit, and after 8xyE the highest bit, of
\* the operand as it was before the instruction, for every x and y, F
\* included, and for both settings of the shift quirk.
C17_ShiftFlag ==
    [][/\ IsAlu(6) => cpu'.register[15] = cpu.register[ShiftOperand] % 2
       /\ IsAlu(14) => cpu'.register[15] = cpu.register[ShiftOperand] \div 128]_vars

\* C18: with the shift quirk off, 8xy6 sets Vx = Vy >> 1 and 8xyE sets
\* Vx = (Vy << 1) mod 256, Vy as it was before the instruction, for every y,
\* F included; with the quirk on, Vy is left as it was and Vx is its own
\* former value shifted by one.  (Stated for x other than F, where Vx is not
\* the flag, and with Vy unchanged for y other than x and F.)
C18_ShiftOperand ==
    [][(FetchedX # 15) =>
        /\ IsAlu(6) => cpu'.register[FetchedX] = cpu.register[ShiftOperand] \div 2
        /\ IsAlu(14) => cpu'.register[FetchedX] = (cpu.register[ShiftOperand] * 2) % 256
        /\ ((IsAlu(6) \/ IsAlu(14)) /\ FetchedY \notin {FetchedX, 15}) =>
                cpu'.register[FetchedY] = cpu.register[FetchedY]]_vars

\* The step executes a word Fxkk with the given low byte.
IsFx(kk) == IsExecute /\ Fetched >= 61440 /\ Fetched % 256 = kk

\* i after Fx55 and Fx65.
IndexAfter == IF cpu.load_store_quirk THEN cpu.i ELSE cpu.i + FetchedX + 1

\* C19: Fx55 sets memory[I + k] = Vk for k = 0..x and changes no register and
\* no other byte of memory; Fx65 sets Vk = memory[I + k] for k = 0..x and
\* changes no memory; afterwards I is I + x + 1 with the load/store quirk off
\* and unchanged with it on.  The instruction completes when I + x is inside
\* memory, which is where this is stated.
C19_LoadStore ==
    [][/\ IsFx(85) =>
            /\ panicked' <=> cpu.i + FetchedX >= MEMORY_SIZE
            /\ ~panicked' =>
                /\ \A k \in 0..FetchedX : get(cpu'.memory, cpu.i + k) = cpu.register[k]
                /\ \A a \in DOMAIN cpu.memory \cup DOMAIN cpu'.memory :
                     (a < cpu.i \/ a > cpu.i + FetchedX) =>
                         get(cpu'.memory, a) = get(cpu.memory, a)
                /\ cpu'.i = IndexAfter
                /\ [cpu' EXCEPT !.memory = cpu.memory, !.i = cpu.i, !.pc = cpu.pc] = cpu
       /\ IsFx(101) =>
            /\ panicked' <=> cpu.i + FetchedX >= MEMORY_SIZE
            /\ ~panicked' =>
                /\ \A k \in 0..FetchedX : cpu'.register[k] = get(cpu.memory, cpu.i + k)
                /\ \A k \in 0..15 : k > FetchedX => cpu'.register[k] = cpu.register[k]
                /\ cpu'.i = IndexAfter
                /\ [cpu' EXCEPT !.register = cpu.register, !.i = cpu.i, !.pc = cpu.pc] = cpu]_vars

C19_Witness ==
    /\ ret = Some(65365)
    /\ ~cpu.load_store_quirk
    /\ cpu.i = MEMORY_SIZE
    /\ get(cpu.memory, MEMORY_SIZE - 16) = 5
    /\ get(cpu.memory, MEMORY_SIZE - 15) = 3
    /\ get(cpu.memory, MEMORY_SIZE - 1) = 7

\* The next cycle executes Fx0A.
AtWait == ~panicked /\ Fetched >= 61440 /\ Fetched % 256 = 10

Pressed == {k \in 0..15 : cpu.keypad[k]}

\* C20: Fx0A executed at address a with no key pressed leaves pc = a and the
\* whole state as it was, so that the next cycle fetches it again; with a key
\* pressed it sets Vx to the lowest pressed key index and leaves pc = a + 2.
\* So while cycles are executed, a key that is pressed at the wait is either
\* released again or taken, and execution moves past the instruction.
C20_KeyWait ==
    /\ [][IsFx(10) =>
            /\ ~panicked'
            /\ ret' = Some(Fetched)
            /\ cpu' = IF Pressed = {} THEN cpu
                      ELSE [cpu EXCEPT
                              !.register[FetchedX] =
                                  CHOOSE k \in Pressed : \A j \in Pressed : k <= j,
                              !.pc = @ + 2]]_vars
    /\ (AtWait /\ Pressed # {} /\ cycles < MaxKeyCycles) ~> (~AtWait \/ Pressed = {})

C20_Witness ==
    /\ cycles = 2
    /\ ret = Some(61450)
    /\ cpu.pc = ROM_START + 2
    /\ cpu.register[0] = 3
    /\ cpu.keypad[3]
    /\ cpu.keypad[15]

\* The next cycle executes a DRW.
IsDraw == Fetched \div 4096 = 13

\* The display of c: its rows and columns, and the pixel at k.
Dimensions(c) == IF c.is_highres THEN <<64, 128>> ELSE <<32, 64>>

Pixel(c, k) == get(c.vram, k)

\* The sprite that the word w draws on c: its size, and its bit at row r
\* and column col, the leftmost being column 0.
SpriteHeight(w) == IF w % 16 = 0 THEN 16 ELSE w % 16

SpriteWidth(w) == IF w % 16 = 0 THEN 16 ELSE 8

SpriteBit(c, w, r, col) ==
    LET byte == IF w % 16 = 0 THEN get(c.memory, c.i + (2 * r) + (col \div 8))
                ELSE get(c.memory, c.i + r)
    IN (byte \div (2 ^ (7 - (col % 8)))) % 2

\* The pixels under the set bits of the sprite, each wrapped on its own.
Covered(c, w) ==
    LET vx == c.register[(w \div 256) % 16]
        vy == c.register[(w \div 16) % 16]
        rows == Dimensions(c)[1]
        cols == Dimensions(c)[2]
    IN { ((vx + col) % cols) + (((vy + r) % rows) * cols) :
            <<r, col>> \in { rc \in (0..(SpriteHeight(w) - 1)) \X (0..(SpriteWidth(w) - 1)) :
                                SpriteBit(c, w, rc[1], rc[2]) = 1 } }

Lit(c) == {k \in DOMAIN c.vram : c.vram[k] # 0}

\* C21: after a DRW, VF is 1 if a set bit of the sprite fell on a pixel that
\* was on and 0 if none did, whichever registers hold the coordinates, and
\* the pixels under no set bit of the sprite are as they were.
C21_Collision ==
    [][(IsExecute /\ IsDraw /\ ~panicked') =>
        /\ cpu'.register[15] = IF \E k \in Covered(cpu, Fetched) : Pixel(cpu, k) = 1 THEN 1 ELSE 0
        /\ \A k \in (Lit(cpu) \cup Lit(cpu')) \ Covered(cpu, Fetched) : Pixel(cpu', k) = Pixel(cpu, k)
        /\ \A k \in 0..14 : cpu'.register[k] = cpu.register[k]]_vars

\* DRW VF, V1, 1 with VF = 0 on a display where the sprite at column 4 is
\* lit: columns 4 to 7 collide.
C21_Witness ==
    /\ cycles = 6
    /\ ret = Some(57105)
    /\ cpu.register[15] = 1
    /\ Lit(cpu) = {0, 1, 2, 3, 8, 9, 10, 11}
    /\ twin.tag = "Some" /\ Lit(twin.val.cpu) = 4..11

\* C22: a DRW flips the pixel at column (Vx + c) mod cols of row
\* (Vy + r) mod rows for every set bit (r, c) of the sprite, cols and rows
\* being 64 and 32 in the low resolution and 128 and 64 in the high one.
C22_Wraps ==
    [][(IsExecute /\ IsDraw /\ ~panicked') =>
        /\ get_height_width(cpu) = Dimensions(cpu)
        /\ \A k \in Covered(cpu, Fetched) : Pixel(cpu', k) = 1 - Pixel(cpu, k)
        /\ Lit(cpu') \subseteq 0..((Dimensions(cpu)[1] * Dimensions(cpu)[2]) - 1)]_vars

\* The byte FF drawn at x = 63, y = 0 in the low resolution: column 63 and
\* columns 0 to 6 of row 0.
C22_Witness ==
    /\ cycles = 5
    /\ ret = Some(53265)
    /\ ~cpu.is_highres
    /\ cpu.register[0] = 63 /\ cpu.register[1] = 0
    /\ Lit(cpu) = (0..6) \cup {63}

\* C23: a DRW that follows the same DRW, with I, the sprite, Vx, Vy and the
\* mode the same, leaves the display as it was before the first; from a
\* clear display the first lights the set bits of the sprite with VF = 0
\* and the second clears them with VF = 1.
C23_DrawTwice ==
    [][(/\ IsExecute /\ IsDraw /\ ~panicked'
        /\ twin.tag = "Some"
        /\ twin.val.cpu.pc + 2 = cpu.pc
        /\ fetch_opcode(twin.val.cpu) = Fetched
        /\ twin.val.cpu.i = cpu.i
        /\ twin.val.cpu.memory = cpu.memory
        /\ twin.val.cpu.is_highres = cpu.is_highres
        /\ twin.val.cpu.register[FetchedX] = cpu.register[FetchedX]
        /\ twin.val.cpu.register[FetchedY] = cpu.register[FetchedY]) =>
        /\ Lit(cpu') = Lit(twin.val.cpu)
        /\ cpu'.vram = twin.val.cpu.vram
        /\ Lit(twin.val.cpu) = {} =>
            /\ Lit(cpu) = Covered(twin.val.cpu, Fetched)
            /\ cpu.register[15] = 0
            /\ Covered(twin.val.cpu, Fetched) # {} =>
                (cpu'.vram = zeroes /\ cpu'.register[15] = 1)]_vars

\* The second of three DRW V0, V1, 1 at (0, 0) has cleared the eight pixels
\* the first lit.
C23_Witness ==
    /\ cycles = 6
    /\ ret = Some(53265)
    /\ cpu.register[0] = 0 /\ cpu.register[1] = 0
    /\ cpu.vram = zeroes
    /\ cpu.register[15] = 1
    /\ twin.tag = "Some" /\ Lit(twin.val.cpu) = 0..7 /\ twin.val.cpu.register[15] = 0

\* C24: 00FE leaves the low resolution and 00FF the high one, each with a
\* clear display, whatever the mode was, and nothing else changes but pc.
C24_LowHigh ==
    [][(IsExecute /\ Fetched \in {254, 255}) =>
        /\ ~panicked' /\ ret' = Some(Fetched)
        /\ cpu'.is_highres = (Fetched = 255)
        /\ get_height_width(cpu') = IF Fetched = 255 THEN <<64, 128>> ELSE <<32, 64>>
        /\ \A k \in 0..(VRAM_SIZE - 1) : Pixel(cpu', k) = 0
        /\ cpu' = [cpu EXCEPT !.pc = cpu.pc + 2, !.is_highres = (Fetched = 255),
                              !.vram = cpu'.vram]]_vars

\* 00FE in the low resolution, on a display with pixels lit.
C24_Witness ==
    /\ cycles = 8
    /\ ret = Some(254)
    /\ ~cpu.is_highres
    /\ cpu.vram = zeroes
    /\ twin.tag = "Some" /\ ~twin.val.cpu.is_highres /\ Lit(twin.val.cpu) # {}

\* The program loaded is 6xkk Fx15 Fy07 for some x, y and kk.
IsTimerRead ==
    /\ Len(rom) = 6
    /\ rom[1] \div 16 = 6
    /\ rom[3] = 240 + (rom[1] % 16) /\ rom[4] = 21
    /\ rom[5] \div 16 = 15 /\ rom[6] = 7

\* C25: once 6xkk, Fx15 and Fy07 have executed, with no step_timers call
\* among them, Vy and the delay timer are both kk.
C25_TimerReadBack ==
    (loads = 1 /\ cycles = 3 /\ IsTimerRead) =>
        /\ ~panicked
        /\ cpu.register[rom[5] % 16] = rom[2]
        /\ cpu.dt = rom[2]

\* 6FFF FF15 F107: kk = 255 written from VF and read into V1.
C25_Witness ==
    /\ cycles = 3
    /\ rom = <<111, 255, 255, 21, 241, 7>>
    /\ ret = Some(61703)
    /\ cpu.register[1] = 255 /\ cpu.dt = 255 /\ cpu.register[15] = 255 /\ cpu.register[0] = 0

\* C27: Bnnn leaves pc = nnn + V0 with the jump quirk off and
\* pc = nnn + Vk with it on, k being the high nibble of nnn, and nothing
\* else changes.
C27_IndirectJump ==
    [][(IsExecute /\ Fetched \div 4096 = 11) =>
        /\ ~panicked' /\ ret' = Some(Fetched)
        /\ cpu' = [cpu EXCEPT !.pc =
                      (Fetched % 4096)
                      + (IF cpu.jump_quirk THEN cpu.register[(Fetched \div 256) % 16]
                         ELSE cpu.register[0])]]_vars

\* 6005 6207 B2F0 with the quirk on: 0x2F0 + V2.
C27_Witness ==
    /\ cycles = 3
    /\ ret = Some(45808)
    /\ cpu.jump_quirk
    /\ cpu.register[0] = 5 /\ cpu.register[2] = 7
    /\ cpu.pc = 759

\* C28: Fx33 that completes leaves the hundreds, tens and units of Vx at I,
\* I + 1 and I + 2 and changes nothing else but pc.
C28_Bcd ==
    [][(IsExecute /\ IsFx(51) /\ ~panicked') =>
        /\ \A k \in 0..2 : get(cpu'.memory, cpu.i + k) \in 0..9
        /\ (100 * get(cpu'.memory, cpu.i)) + (10 * get(cpu'.memory, cpu.i + 1))
             + get(cpu'.memory, cpu.i + 2) = cpu.register[FetchedX]
        /\ \A a \in (DOMAIN cpu.memory \cup DOMAIN cpu'.memory) \ (cpu.i..(cpu.i + 2)) :
              get(cpu'.memory, a) = get(cpu.memory, a)
        /\ cpu' = [cpu EXCEPT !.pc = cpu.pc + 2, !.memory = cpu'.memory]]_vars

\* 6FFE A300 FF33: 254 from VF.
C28_Witness ==
    /\ cycles = 3
    /\ ret = Some(65331)
    /\ cpu.register[15] = 254
    /\ cpu.i = 768
    /\ get(cpu.memory, 768) = 2 /\ get(cpu.memory, 769) = 5 /\ get(cpu.memory, 770) = 4

\* C29: I is at most 0xFFFF in every state.
C29_IndexIn16Bits == cpu.i <= 65535

\* The next cycle executes Ex9E or ExA1.
IsKeySkip == Fetched \div 4096 = 14 /\ Fetched % 256 \in {158, 161}

\* C30: Ex9E and ExA1 complete for every value of Vx; Ex9E skips when the
\* key Vx is pressed and ExA1 when it is not.
C30_KeypadInfallible ==
    [][(IsExecute /\ IsKeySkip) =>
        LET key == cpu.register[FetchedX]
            pressed == key \in 0..15 /\ cpu.keypad[key]
            skips == IF Fetched % 256 = 158 THEN pressed ELSE ~pressed
        IN /\ ~panicked'
           /\ cpu' = [cpu EXCEPT !.pc = cpu.pc + (IF skips THEN 4 ELSE 2)]]_vars

\* The two machines are in the same state.
TwinEqual == twin.tag = "Some" /\ twin.val.cpu = cpu /\ twin.val.panic = panicked

LitAt(c) == {<<k \div Dimensions(c)[2], k % Dimensions(c)[2]>> : k \in Lit(c)}

\* The frame of cells of the active resolution.
OnDisplay(c, cell) ==
    cell[1] \in 0..(Dimensions(c)[1] - 1) /\ cell[2] \in 0..(Dimensions(c)[2] - 1)

\* C31: 00Cn moves every row n rows down and clears rows 0 to n - 1; 00FB
\* moves every row 4 columns right and clears columns 0 to 3; 00FC moves
\* every row 4 columns left and clears the last 4 columns; pixels that
\* leave the display are lost, and nothing else changes but pc.
C31_Scrolls ==
    [][(IsExecute /\ (Fetched \in 192..207 \/ Fetched \in {251, 252})) =>
        LET n == Fetched % 16
            down == {<<cell[1] + n, cell[2]>> : cell \in LitAt(cpu)}
            right == {<<cell[1], cell[2] + 4>> : cell \in LitAt(cpu)}
            left == {<<cell[1], cell[2] - 4>> : cell \in LitAt(cpu)}
            moved == IF Fetched = 251 THEN right ELSE IF Fetched = 252 THEN left ELSE down
        IN /\ ~panicked' /\ ret' = Some(Fetched)
           /\ \A k \in Lit(cpu') : Pixel(cpu', k) = 1
           /\ \A cell \in LitAt(cpu) : OnDisplay(cpu, cell)
           /\ LitAt(cpu') = {cell \in moved : OnDisplay(cpu, cell)}
           /\ cpu' = [cpu EXCEPT !.pc = cpu.pc + 2, !.vram = cpu'.vram]]_vars

\* The glyph of 0 drawn at (126, 0) in the high resolution, wrapped to
\* columns 126, 127, 0 and 1, after SCR: the columns 126 and 127 are lost
\* and the columns 0 and 1 are now 4 and 5.
C31_Witness ==
    /\ cycles = 6
    /\ ret = Some(251)
    /\ cpu.is_highres
    /\ cpu.register[0] = 126 /\ cpu.register[1] = 0
    /\ LitAt(cpu) = {<<0, 4>>, <<0, 5>>, <<4, 4>>, <<4, 5>>, <<1, 5>>, <<2, 5>>, <<3, 5>>}

\* C32: for x <= 7, Fx75 copies V0..Vx to the flag registers 0..x and Fx85
\* copies back what the Fx75 executed so far stored there, each leaving the
\* rest as it was; for x > 7 each is rejected without a fault and without
\* a change.
C32_Rpl ==
    [][(IsExecute /\ (IsFx(117) \/ IsFx(133))) =>
        /\ ~panicked'
        /\ cpu' = IF FetchedX > 7 THEN [cpu EXCEPT !.pc = cpu.pc + 2]
                  ELSE IF Fetched % 256 = 117
                  THEN [cpu EXCEPT !.pc = cpu.pc + 2,
                                   !.flag_regs = [k \in 0..7 |->
                                       IF k <= FetchedX THEN cpu.register[k] ELSE cpu.flag_regs[k]]]
                  ELSE [cpu EXCEPT !.pc = cpu.pc + 2,
                                   !.register = [k \in 0..15 |->
                                       IF k <= FetchedX THEN saved[k] ELSE cpu.register[k]]]]_vars

\* The pixels that the cycle flips.
Flipped == {k \in Lit(cpu) \cup Lit(cpu') : Pixel(cpu', k) # Pixel(cpu, k)}

\* The sprite of 32 bytes at I has a set bit in its right half.
HasRightHalf == \E r \in 0..15, col \in 8..15 : SpriteBit(cpu, 0, r, col) = 1

\* C33: in the high resolution Dxy0 draws the 16 x 16 sprite at I, two
\* bytes to a row, by the rules of Dxyn; in the low resolution it does not.
C33_WideSprite ==
    [][(IsExecute /\ IsDraw /\ Fetched % 16 = 0 /\ ~panicked') =>
        /\ cpu.is_highres =>
            /\ Flipped = Covered(cpu, Fetched)
            /\ cpu'.register[15] = IF \E k \in Covered(cpu, Fetched) : Pixel(cpu, k) = 1 THEN 1 ELSE 0
        /\ (~cpu.is_highres /\ HasRightHalf) => Flipped # Covered(cpu, Fetched)]_vars

\* C34: every byte of the display buffer is 0 or 1.
C34_PixelsAreBits ==
    /\ DOMAIN cpu.vram \subseteq 0..(VRAM_SIZE - 1)
    /\ \A k \in DOMAIN cpu.vram : cpu.vram[k] \in {0, 1}

\* A display in the high resolution lit by a sprite and scrolled twice.
C34_Witness ==
    /\ cycles = 7
    /\ ret = Some(252)
    /\ cpu.is_highres
    /\ Cardinality(Lit(cpu)) > 8

\* The quirk flags of c.
Quirks(c) == <<c.load_store_quirk, c.shift_quirk, c.jump_quirk>>

\* C35: execute_cycle, step_timers and load_rom change no quirk flag and no
\* keypad flag; a quirk flag changes only in a call of its setter, and a
\* keypad flag only in set_key_at_index, reset_keys or reset.
C35_InputsKept ==
    [][/\ (IsExecute \/ IsLoad \/ StepTimers) =>
            Quirks(cpu') = Quirks(cpu) /\ cpu'.keypad = cpu.keypad
       /\ Quirks(cpu') # Quirks(cpu) => (SetLoadStore \/ SetShift \/ SetJump)
       /\ cpu'.keypad # cpu.keypad => (SetWaitKey \/ ResetKeys \/ Reset)]_vars

\* F10A has read the key 3 with the keys 3 and 15 down and two quirks set:
\* the keys are still down and the quirks still set.
C35_Witness ==
    /\ cycles = 1
    /\ ret = Some(61706)
    /\ cpu.register[1] = 3
    /\ Pressed = {3, 15}
    /\ Quirks(cpu) = <<TRUE, FALSE, TRUE>>

\* C36: in ch8-core, 8xy6 leaves in VF the lowest bit and 8xyE the highest
\* bit that Vx had before the shift.
C36_Ch8ShiftFlag ==
    [][(core = "ch8-core" /\ (IsAlu(6) \/ IsAlu(14)) /\ FetchedX # 15) =>
        cpu'.register[15] = IF Fetched % 16 = 6 THEN cpu.register[FetchedX] % 2
                            ELSE cpu.register[FetchedX] \div 128]_vars

\* The calls of a whole frame of n cycles.
FrameCalls(n) == [k \in 1..(n + 1) |-> IF k <= n THEN "execute_cycle" ELSE "step_timers"]

\* C37: a redraw while Running calls execute_cycle cycles_per_frame times
\* and then step_timers once; a redraw in any other state calls neither
\* from the frame loop.
C37_FrameOrder ==
    [][(frontend'.event = "RedrawRequested" /\ ~panicked) =>
        IF frontend.emulator_state = "Running"
        THEN /\ frontend'.calls = FrameCalls(frontend.cycles_per_frame)
             /\ cycles' = cycles + frontend.cycles_per_frame + Executed(frontend'.buttons)
        ELSE frontend'.calls = << >>]_vars

\* A frame of three cycles, the last one on a word that is no instruction,
\* and the delay timer set to 2 in it then stepped once.
C37_Witness ==
    /\ frontend.calls = <<"execute_cycle", "execute_cycle", "execute_cycle", "step_timers">>
    /\ frontend.emulator_state = "Running"
    /\ cpu.pc = ROM_START + 6
    /\ cpu.dt = 1

\* C38: no redraw of emulator::start panics; a redraw of a halted machine
\* ends the event loop, and any other runs all the cycles of the frame and
\* then steps the timers.
C38_DriverNeverAborts ==
    [][(frontend'.event = "RedrawRequested" /\ ~panicked) =>
        /\ ~panicked'
        /\ IF cpu.is_halted
           THEN frontend'.control_flow = "Exit" /\ frontend'.calls = << >>
           ELSE frontend'.calls = FrameCalls(frontend.cycles_per_frame)]_vars

\* The ROM last opened is in the memory of c.
RomInMemory(c) ==
    /\ rom # << >>
    /\ \A k \in 1..Len(rom) : get(c.memory, ROM_START + k - 1) = rom[k]

C40_KeypadFollowsKeys ==
    frontend.emulator_state = "Running" =>
        \A keycode \in DOMAIN KeycodeIndex :
            cpu.keypad[KeycodeIndex[keycode]] = (keycode \in frontend.keys_down)

====
